---- MODULE Spec2Model ----
(***************************************************************************)
(* Slot materialization and booking-conflict engine of the appointment     *)
(* platform core service (services/core).                                  *)
(*                                                                         *)
(* The store is PostgreSQL behind GORM at the default isolation level,     *)
(* READ COMMITTED: every statement reads the rows committed when it runs,  *)
(* a transaction's writes become visible to the others at its commit, a    *)
(* row lock (SELECT ... FOR UPDATE, UPDATE) is held until the transaction  *)
(* ends, and a statement that meets a row locked by another transaction    *)
(* waits and then looks at the row's newest committed version.             *)
(*                                                                         *)
(* Time is a number of ticks; slots and windows are pairs of ticks.        *)
(*                                                                         *)
(* Not modelled: deadlock detection (a transaction is never aborted by the *)
(* store), schedule time zones other than UTC, the role check of           *)
(* BulkCancelProviderSlots (ensureProviderRole passes), and request fields *)
(* that fail to parse. A multi-row UPDATE takes its row locks in one step. *)
(***************************************************************************)
EXTENDS Integers, Sequences, FiniteSets, TLC

\* ------------------------------------------------------------------ bounds

\* Handler goroutines that serve requests at the same time.
NumWorkers == 2
\* Transactions committed before the last request of a behaviour begins, when
\* requests are served concurrently (Spec) and one at a time (SpecSeq).
MaxCommits == 4
MaxCommitsSeq == 4
\* The same for the ListFreeSlots requests of SpecMat and SpecMatSeq.
MaxCommitsMat == 3
MaxCommitsMatSeq == 3

Workers == 1..NumWorkers

\* ------------------------------------------------------ model/slot.go, booking.go

TimeSlotStatusPlanned == "planned"
TimeSlotStatusBooked == "booked"
TimeSlotStatusCancelled == "cancelled"

BookingStatusPending == "pending"
BookingStatusConfirmed == "confirmed"
BookingStatusCancelled == "cancelled"

\* A NULL column (service_id, a user that does not exist). The nullable
\* cancelled_at is a sequence: <<>> for NULL, <<t>> for the time t.
NULL == "null"

\* ------------------------------------------------------------ request inputs

\* Rows of the clients table; "cx" is an id with no row.
Clients == {"c1", "c2"}
ClientIds == Clients \cup {"cx"}
Providers == {"p1", "p2"}
Comments == {"note"}
Reasons == {"", "sick"}
\* Windows [start, end) of BulkCancelProviderSlots requests.
Windows == {<<0, 3>>, <<1, 4>>}

\* The time_slots rows present when the service starts serving: two slots of
\* provider p1 that overlap each other, and one of p2 that touches the first
\* and overlaps the second.
SlotSeed ==
  << [provider |-> "p1", service |-> "a", starts |-> 0, ends |-> 2,
      status |-> TimeSlotStatusPlanned, schedule |-> NULL],
     [provider |-> "p1", service |-> "a", starts |-> 1, ends |-> 3,
      status |-> TimeSlotStatusPlanned, schedule |-> NULL],
     [provider |-> "p2", service |-> NULL, starts |-> 2, ends |-> 4,
      status |-> TimeSlotStatusPlanned, schedule |-> NULL] >>

\* --------------------------------------------------------------------- state

VARIABLES
  slots,      \* table time_slots: sequence of rows, the id is the index
  bookings,   \* table bookings: sequence of rows, the id is the index
  slotLock,   \* row locks on time_slots: set of <<slot id, worker>>
  bookingLock,\* row locks on bookings: set of <<booking id, worker>>
  pc,         \* worker -> the statement it executes next
  call,       \* worker -> request and locals of the handler it runs
  response,   \* the response sent last, with the request it answers
  commits,    \* transactions committed so far; time.Now() is commits + 1
  scope,      \* the requests a behaviour draws from; set once, never changed
  roles,      \* table roles: set of role codes (code is unique)
  userRoles   \* table user_roles: set of <<role code, user id>> (composite key)

vars == <<slots, bookings, slotLock, bookingLock, pc, call, response, commits, scope,
          roles, userRoles>>

\* ---------------------------------------------------------------------- time

\* An instant is a number of seconds. A minute is shortened to Minute seconds
\* and a day to MinutesPerDay minutes; day 0 begins at instant 0 and is a
\* Monday. Every zone is UTC.
Minute == 2
MinutesPerDay == 3
DayLen == MinutesPerDay * Minute

\* The zero time.Time, before every instant a request or a rule names.
ZeroTime == -1

\* time.Weekday counts from Sunday.
Sunday == 0

DayOf(t) == t \div DayLen
\* time.Date(y, m, d, 0, 0, 0, 0, loc) of the day of t.
Midnight(t) == DayOf(t) * DayLen
\* t.Clock(): the seconds since midnight.
Clock(t) == t % DayLen
Weekday(t) == (DayOf(t) + 1) % 7
AddDate(t, days) == t + days * DayLen
\* time.Date(y, m, d, 23, 59, 59, 0, loc) of day d.
EndOfDay(d) == d * DayLen + DayLen - 1

\* ------------------------------------------------ utils: TimeRange, HasOverlap

TimeRange(start, end) == [Start |-> start, End |-> end]

rangesOverlapTouching(a, b, inclusive) ==
  (a.Start <= b.End) /\ (b.Start <= a.End)

\* Only the first of the two comparisons.
rangesOverlapOneSided(a, b, inclusive) ==
  IF inclusive THEN ~(a.Start > b.End) ELSE a.Start < b.End

rangesOverlap(a, b, inclusive) ==
  IF inclusive
    THEN ~(a.Start > b.End) /\ ~(b.Start > a.End)
    ELSE (a.Start < b.End) /\ (b.Start < a.End)

\* The scan stopping at the first conflict.
HasOverlapFirst(newRange, existing, inclusive) ==
  LET conflicts == SelectSeq(existing, LAMBDA tr : rangesOverlap(newRange, tr, inclusive))
  IN [has |-> Len(conflicts) > 0,
      conflicts |-> IF Len(conflicts) > 0 THEN <<conflicts[1]>> ELSE << >>]

HasOverlap(newRange, existing, inclusive) ==
  LET conflicts == SelectSeq(existing, LAMBDA tr : rangesOverlap(newRange, tr, inclusive))
  IN [has |-> Len(conflicts) > 0, conflicts |-> conflicts]

ErrInvalidTimeRange == "invalid time range"
ErrSlotDuration == "slot duration must be positive"

\* The interval keeps its full span whatever maxDuration is.
capEndNever(start, end, maxDuration) == end

\* The end of the interval after the maxDuration limit is applied.
capEnd(start, end, maxDuration) ==
  IF maxDuration > 0 /\ end - start > maxDuration
    THEN start + maxDuration
    ELSE end

\* NormalizeTimeRange(start, end, loc, maxDuration): only the instants
\* matter, In(loc) does not change them.
NormalizeTimeRange(start0, end0, maxDuration) ==
  IF start0 = ZeroTime \/ end0 = ZeroTime
    THEN [err |-> ErrInvalidTimeRange, result |-> TimeRange(ZeroTime, ZeroTime)]
    ELSE LET start == IF end0 < start0 THEN end0 ELSE start0
             end1 == IF end0 < start0 THEN start0 ELSE end0
             end == capEnd(start, end1, maxDuration)
         IN IF ~(end > start)
              THEN [err |-> ErrInvalidTimeRange, result |-> TimeRange(ZeroTime, ZeroTime)]
              ELSE [err |-> "", result |-> TimeRange(start, end)]

\* An hour of MinutesPerHour minutes; SplitToTimeSlots looks at the minute
\* within the hour and never at the day.
MinutesPerHour == 5
HourLen == MinutesPerHour * Minute
Nanosecond == 1
MinuteOf(t) == (t % HourLen) \div Minute

\* time.Date(y, m, d, hour, min, 0, 0, loc) with min possibly past the hour.
DateAtMinute(t, min) == (t - (t % HourLen)) + min * Minute

\* The start of the first slot: moved forward to a minute that is a multiple
\* of alignMinutes when the minute of start is not one.
alignStart(start, alignMinutes) ==
  LET min == MinuteOf(start)
      rem == IF alignMinutes > 0 THEN min % alignMinutes ELSE 0
      delta == alignMinutes - rem
  IN IF alignMinutes > 0 /\ rem # 0
       THEN DateAtMinute(start, min + delta)
       ELSE start

RECURSIVE splitLoopKeepTail(_, _, _)
\* The loop emitting the trailing part as a last, shorter slot.
splitLoopKeepTail(cur, slotDuration, end) ==
  IF cur + slotDuration - Nanosecond < end
    THEN IF ~(cur + slotDuration > end)
           THEN <<TimeRange(cur, cur + slotDuration)>>
                  \o splitLoopKeepTail(cur + slotDuration, slotDuration, end)
           ELSE << >>
    ELSE IF cur < end THEN <<TimeRange(cur, end)>> ELSE << >>

RECURSIVE splitLoop(_, _, _)
\* for cur := start; cur+d-1ns < end; cur += d { append or break }
splitLoop(cur, slotDuration, end) ==
  IF cur + slotDuration - Nanosecond < end
    THEN IF ~(cur + slotDuration > end)
           THEN <<TimeRange(cur, cur + slotDuration)>>
                  \o splitLoop(cur + slotDuration, slotDuration, end)
           ELSE << >>
    ELSE << >>

SplitToTimeSlots(tr, slotDuration, alignMinutes) ==
  IF slotDuration <= 0
    THEN [err |-> ErrSlotDuration, result |-> << >>]
    ELSE IF ~(tr.End > tr.Start)
      THEN [err |-> "", result |-> << >>]
      ELSE LET start == alignStart(tr.Start, alignMinutes)
           IN IF start # tr.Start /\ ~(start < tr.End)
                THEN [err |-> "", result |-> << >>]
                ELSE [err |-> "", result |-> splitLoop(start, slotDuration, tr.End)]

\* ------------------------------------------------- utils: ExpandRecurringRule

FreqDaily == 0
FreqWeekly == 1

\* An optional value (a nil pointer or a value): << >> or <<v>>.
Nil == << >>
Some(v) == <<v>>

RECURSIVE SortedSeq(_)
SortedSeq(S) ==
  IF S = {} THEN << >>
  ELSE LET m == CHOOSE x \in S : \A y \in S : x <= y
       IN <<m>> \o SortedSeq(S \ {m})

uniqueSortedWeekdays(days) == SortedSeq({days[i] : i \in DOMAIN days})

offsetFromMonday(wd) == IF wd = Sunday THEN 6 ELSE wd - 1

weekStartMonday(t) == AddDate(Midnight(t), 0 - offsetFromMonday(Weekday(t)))

nextOccurrence(rule, cur) ==
  CASE rule.Freq = FreqDaily -> AddDate(cur, rule.Interval)
    [] rule.Freq = FreqWeekly -> AddDate(cur, 7 * rule.Interval)
    [] OTHER -> AddDate(cur, rule.Interval)

containsWeekday(list, w) == \E i \in DOMAIN list : list[i] = w

dateOnly(t) == DayOf(t)

isExceptionNever(rule, t) == FALSE

\* rule.Exceptions is a set of dates; the nil map is the empty set.
isException(rule, t) == dateOnly(t) \in rule.Exceptions

\* The count bound of the loops.
CountIgnored(rule, acc) == FALSE

CountReached(rule, acc) == rule.Count # Nil /\ acc.countGenerated >= rule.Count[1]

Generated(acc, occRange) ==
  [acc EXCEPT !.result = Append(@, occRange), !.countGenerated = @ + 1]

\* The inner loop of the weekly branch, from the i-th listed weekday of the
\* week that begins at weekStart; returned is set when the function returns
\* from inside the loop.
RECURSIVE ExpandWeekdays(_, _, _, _, _, _)
ExpandWeekdays(rule, window, weekdays, weekStart, i, acc) ==
  IF i > Len(weekdays) THEN acc
  ELSE IF CountReached(rule, acc) THEN acc
  ELSE
    LET d == AddDate(weekStart, offsetFromMonday(weekdays[i]))
        occStart == Midnight(d) + Clock(rule.StartTime)
        occEnd == occStart + rule.Duration
        occRange == TimeRange(occStart, occEnd)
    IN IF occStart < rule.StartTime
         THEN ExpandWeekdays(rule, window, weekdays, weekStart, i + 1, acc)
       ELSE IF rule.Until # Nil /\ occStart > rule.Until[1]
         THEN [acc EXCEPT !.returned = TRUE]
       ELSE IF isException(rule, occStart)
         THEN ExpandWeekdays(rule, window, weekdays, weekStart, i + 1, acc)
       ELSE IF rangesOverlap(occRange, window, FALSE)
         THEN ExpandWeekdays(rule, window, weekdays, weekStart, i + 1,
                             Generated(acc, occRange))
       ELSE IF occStart > window.End /\ occEnd > window.End
         THEN acc
       ELSE ExpandWeekdays(rule, window, weekdays, weekStart, i + 1, acc)

\* The outer loop of the weekly branch, from the week of weekCursor.
RECURSIVE ExpandWeeks(_, _, _, _, _)
ExpandWeeks(rule, window, weekdays, weekCursor, acc) ==
  IF CountReached(rule, acc) THEN acc.result
  ELSE
    LET weekStart == weekStartMonday(weekCursor)
        week == ExpandWeekdays(rule, window, weekdays, weekStart, 1, acc)
        nextCursor == AddDate(weekCursor, 7 * rule.Interval)
    IN IF weekStart > window.End THEN acc.result
       ELSE IF week.returned THEN week.result
       ELSE IF rule.Until # Nil /\ nextCursor > rule.Until[1] THEN week.result
       ELSE ExpandWeeks(rule, window, weekdays, nextCursor, week)

\* The loop of the daily branch (also a weekly rule without weekdays), from cur.
RECURSIVE ExpandFrom(_, _, _, _)
ExpandFrom(rule, window, cur, acc) ==
  IF rule.Until # Nil /\ cur > rule.Until[1] THEN acc.result
  ELSE IF CountReached(rule, acc) THEN acc.result
  ELSE
    LET occStart == cur
        occEnd == cur + rule.Duration
        occRange == TimeRange(occStart, occEnd)
        next == nextOccurrence(rule, cur)
    IN IF /\ rule.Freq = FreqWeekly /\ Len(rule.Weekdays) > 0
          /\ ~containsWeekday(rule.Weekdays, Weekday(occStart))
         THEN ExpandFrom(rule, window, next, acc)
       ELSE IF isException(rule, occStart)
         THEN ExpandFrom(rule, window, next, acc)
       ELSE IF rangesOverlap(occRange, window, FALSE)
         THEN ExpandFrom(rule, window, next, Generated(acc, occRange))
       ELSE IF occEnd > window.End /\ occStart > window.End
         THEN acc.result
       ELSE ExpandFrom(rule, window, next, acc)

\* A missing interval read as two steps.
defaultIntervalTwo(rule) ==
  IF rule.Interval <= 0 THEN [rule EXCEPT !.Interval = 2] ELSE rule

\* if rule.Interval <= 0 { rule.Interval = 1 }
defaultInterval(rule) ==
  IF rule.Interval <= 0 THEN [rule EXCEPT !.Interval = 1] ELSE rule

\* The result is [err, result]: err is "" when the call succeeds.
ExpandRecurringRule(rule0, window) ==
  LET rule == defaultInterval(rule0)
      acc == [result |-> << >>, countGenerated |-> 0, returned |-> FALSE]
  IN IF rule0.Duration <= 0
       THEN [err |-> "recurring rule: duration must be positive", result |-> << >>]
     ELSE IF rule.StartTime = ZeroTime
       THEN [err |-> "recurring rule: StartTime is required", result |-> << >>]
     ELSE IF ~(window.End > window.Start)
       THEN [err |-> "", result |-> << >>]
     ELSE IF rule.Freq = FreqWeekly /\ Len(rule.Weekdays) > 0
       THEN [err |-> "",
             result |-> ExpandWeeks(rule, window, uniqueSortedWeekdays(rule.Weekdays),
                                    rule.StartTime, acc)]
     ELSE [err |-> "", result |-> ExpandFrom(rule, window, rule.StartTime, acc)]

\* ------------------------------------------------------------- store helpers

SlotIds == 1..Len(slots)
BookingIds == 1..Len(bookings)

SlotLockedByOther(w, id) == \E o \in Workers \ {w} : <<id, o>> \in slotLock
BookingLockedByOther(w, id) == \E o \in Workers \ {w} : <<id, o>> \in bookingLock

ReleaseSlotLocks(w) == {l \in slotLock : l[2] # w}
ReleaseBookingLocks(w) == {l \in bookingLock : l[2] # w}

\* Rows of a result set ordered by "time_slots.starts_at ASC" (ties by booking id).
RECURSIVE OrderByStartsAt(_)
OrderByStartsAt(ids) ==
  IF ids = {} THEN << >>
  ELSE LET first == CHOOSE b \in ids : \A o \in ids :
                      \/ slots[bookings[b].slot].starts < slots[bookings[o].slot].starts
                      \/ /\ slots[bookings[b].slot].starts = slots[bookings[o].slot].starts
                         /\ b <= o
       IN <<first>> \o OrderByStartsAt(ids \ {first})

RangesOf(ids) ==
  LET ord == OrderByStartsAt(ids)
  IN [i \in 1..Len(ord) |->
        TimeRange(slots[bookings[ord[i]].slot].starts, slots[bookings[ord[i]].slot].ends)]

listClientConfirmedBookingRangesTx(clientID, excludeSlotID) ==
  RangesOf({b \in BookingIds : /\ bookings[b].client = clientID
                               /\ bookings[b].status = BookingStatusConfirmed
                               /\ bookings[b].slot # excludeSlotID})

listProviderConfirmedBookingRangesTx(providerID, excludeSlotID) ==
  RangesOf({b \in BookingIds : /\ slots[bookings[b].slot].provider = providerID
                               /\ bookings[b].status = BookingStatusConfirmed
                               /\ bookings[b].slot # excludeSlotID})

\* The unique index on bookings.slot_id: an INSERT is accepted only when no row
\* of the table, whatever its status, has the same slot_id.
NoUniqueIndex(slotID) == TRUE

UniqueSlotIdFree(slotID) == \A b \in BookingIds : bookings[b].slot # slotID

\* -------------------------------------------------------------- handler state

\* Beside the request and the handler's locals a call records, for the
\* properties only: c0, the transactions committed when it began; seen, what
\* the committed rows said about a CreateBooking's slot and client then;
\* rival, the code returned by a CreateBooking on the same slot that began on
\* the same committed rows and returned while this call was running; repeat,
\* whether a ListFreeSlots repeats the request answered just before it.
\* No row read yet, no row to return.
NoRow == [none |-> TRUE]

NoCall ==
  [op |-> "none", client |-> NULL, slot |-> 0, booking |-> 0, provider |-> NULL,
   window |-> <<0, 0>>, reason |-> "", comment |-> "",
   row |-> NoRow, rows |-> {}, pending |-> {}, waitSlots |-> {}, now |-> 0,
   code |-> "", msg |-> "", out |-> NoRow, available |-> FALSE, nBookings |-> 0, nSlots |-> 0,
   service |-> NULL, page |-> 0, pageSize |-> 0, occ |-> << >>, toCreate |-> << >>, list |-> << >>, total |-> 0,
   c0 |-> 0, seen |-> NoRow, rival |-> "", repeat |-> FALSE, afterBulk |-> FALSE]

\* Half-open overlap of the ranges of two slots.
SlotsOverlap(s, t) ==
  slots[s].starts < slots[t].ends /\ slots[t].starts < slots[s].ends

SlotsTouch(s, t) ==
  slots[s].ends = slots[t].starts \/ slots[t].ends = slots[s].starts

ConfirmedElsewhere(slotID) ==
  {b \in BookingIds : /\ bookings[b].status = BookingStatusConfirmed
                      /\ bookings[b].slot # slotID}

\* What the committed rows say about a CreateBooking(client, slot).
Seen(clientID, slotID) ==
  IF slotID \notin SlotIds
    THEN [status |-> NULL, clientClash |-> FALSE, clientTouch |-> FALSE,
          providerClash |-> FALSE, earlier |-> {}, nBookings |-> Len(bookings)]
    ELSE [status |-> slots[slotID].status,
          clientClash |-> \E b \in ConfirmedElsewhere(slotID) :
             bookings[b].client = clientID /\ SlotsOverlap(bookings[b].slot, slotID),
          clientTouch |-> \E b \in ConfirmedElsewhere(slotID) :
             bookings[b].client = clientID /\ SlotsTouch(bookings[b].slot, slotID),
          providerClash |-> \E b \in ConfirmedElsewhere(slotID) :
             /\ slots[bookings[b].slot].provider = slots[slotID].provider
             /\ SlotsOverlap(bookings[b].slot, slotID),
          earlier |-> {b \in BookingIds : bookings[b].slot = slotID},
          nBookings |-> Len(bookings)]

\* The CreateBooking c began on rows that let it pass: its client exists, its
\* slot is planned, neither its client nor the slot's provider has a
\* confirmed booking on another slot that overlaps it.
Pre(c) ==
  /\ c.op = "CreateBooking"
  /\ c.client \in Clients
  /\ c.seen.status = TimeSlotStatusPlanned
  /\ ~c.seen.clientClash
  /\ ~c.seen.providerClash

IsRival(c, o) ==
  /\ c.op = "CreateBooking" /\ o.op = "CreateBooking"
  /\ c.slot = o.slot /\ c.c0 = o.c0 /\ Pre(c) /\ Pre(o)

\* The handler of worker w ends with response r: its transaction has ended,
\* its row locks are gone and its locals with it.
Respond(w, r) ==
  /\ pc' = [pc EXCEPT ![w] = "idle"]
  /\ response' = r
  /\ call' = [o \in Workers |->
       IF o = w THEN NoCall
       ELSE IF IsRival(r, call[o]) THEN [call[o] EXCEPT !.rival = r.code]
       ELSE call[o]]
  /\ slotLock' = ReleaseSlotLocks(w)
  /\ bookingLock' = ReleaseBookingLocks(w)

\* The handler returns an error; its transaction, if it had begun one, is
\* rolled back.
Return(w, c, code, msg) ==
  Respond(w, [c EXCEPT !.code = code, !.msg = msg])

\* The handler panics. No handler and no interceptor recovers a panic, so
\* the process ends: no response is sent, the open transactions of all
\* handlers are rolled back, and the service starts again on the committed
\* rows.
Panic(w, c) ==
  /\ pc' = [o \in Workers |-> "idle"]
  /\ call' = [o \in Workers |-> NoCall]
  /\ response' = [c EXCEPT !.code = "Panic", !.msg = "nil pointer dereference"]
  /\ slotLock' = {}
  /\ bookingLock' = {}

\* The transaction commits and the handler returns its response.
Commit(w, c) ==
  /\ Respond(w, [c EXCEPT !.code = "OK", !.msg = ""])
  /\ commits' = commits + 1

\* time.Now() read by a statement.
Now == commits + 1

\* A worker takes the next request when it is idle; no request begins once
\* maxCommits transactions have committed.
CanBegin(w) ==
  /\ w \in scope.workers
  /\ pc[w] = "idle"
  /\ commits < scope.maxCommits

\* Requests served concurrently: two clients book and cancel the two
\* overlapping slots of provider p1, which bulk-cancels its window.
ScopeConcurrent ==
  [workers |-> Workers, clientIds |-> Clients, slotIds |-> {1, 2}, bookingIds |-> {},
   providers |-> {"p1"}, windows |-> {<<0, 3>>}, reasons |-> {"sick"},
   maxCommits |-> MaxCommits]

\* Requests served one at a time: every client, slot, provider and window,
\* also ids that have no row.
ScopeSequential ==
  [workers |-> {1}, clientIds |-> ClientIds, slotIds |-> {1, 2, 3, 4}, bookingIds |-> {9},
   providers |-> Providers, windows |-> Windows, reasons |-> Reasons,
   maxCommits |-> MaxCommitsSeq]

InitStore ==
  /\ slots = SlotSeed
  /\ bookings = << >>
  /\ slotLock = {}
  /\ bookingLock = {}
  /\ pc = [w \in Workers |-> "idle"]
  /\ call = [w \in Workers |-> NoCall]
  /\ response = NoCall
  /\ commits = 0
  /\ roles = {}
  /\ userRoles = {}

Init == InitStore /\ scope = ScopeConcurrent

InitSeq == InitStore /\ scope = ScopeSequential

\* ListFreeSlots requests served concurrently, for provider p1 and two windows
\* of two days that share day 1; no window bound falls inside an occurrence.
ScopeMat ==
  [workers |-> Workers, providers |-> {"p1"}, services |-> {NULL, "a"},
   windows |-> {<<0, 2 * DayLen>>, <<DayLen, 3 * DayLen>>}, pages |-> {<<0, 0>>},
   maxCommits |-> MaxCommitsMat]

\* ListFreeSlots requests served one at a time: also windows whose start or
\* end falls inside an occurrence, an empty window and a second page.
ScopeMatSeq ==
  [workers |-> {1}, providers |-> Providers, services |-> {NULL, "a"},
   windows |-> {<<0, 2 * DayLen>>, <<Minute + 1, 2 * DayLen>>,
                <<0, DayLen + Minute + 1>>, <<DayLen, DayLen>>},
   pages |-> {<<0, 0>>, <<2, 1>>},
   maxCommits |-> MaxCommitsMatSeq]

\* The service starts on empty time_slots and bookings tables.
InitEmpty ==
  /\ slots = << >>
  /\ bookings = << >>
  /\ slotLock = {}
  /\ bookingLock = {}
  /\ pc = [w \in Workers |-> "idle"]
  /\ call = [w \in Workers |-> NoCall]
  /\ response = NoCall
  /\ commits = 0
  /\ roles = {}
  /\ userRoles = {}

InitMat == InitEmpty /\ scope = ScopeMat

\* Every operation on the calendar, served one request at a time, for
\* provider p3, whose two schedules both have an occurrence on the Monday
\* of every week, and its slots, which exist once they are materialized.
MaxCommitsCal == 4
ScopeCal ==
  [workers |-> {1}, clientIds |-> {"c1"}, slotIds |-> {1, 2, 3}, bookingIds |-> {},
   providers |-> {"p3"}, services |-> {NULL, "a"},
   windows |-> {<<0, DayLen>>, <<0, 2 * DayLen>>}, pages |-> {<<0, 0>>},
   reasons |-> {"sick"}, maxCommits |-> MaxCommitsCal]

InitCal == InitEmpty /\ scope = ScopeCal

InitMatSeq == InitEmpty /\ scope = ScopeMatSeq

\* ------------------------------------------------------------- CreateBooking

\* The request arrives; the client row is looked up outside the transaction.
CreateBookingFindClient(w) ==
  /\ CanBegin(w)
  /\ \E clientID \in scope.clientIds, slotID \in scope.slotIds, comment \in Comments :
       LET c == [NoCall EXCEPT !.op = "CreateBooking", !.client = clientID,
                               !.slot = slotID, !.comment = comment,
                               !.c0 = commits,
                               !.seen = Seen(clientID, slotID)]
       IN IF clientID \in Clients
            THEN /\ pc' = [pc EXCEPT ![w] = "cb_lock"]
                 /\ call' = [call EXCEPT ![w] = c]
                 /\ UNCHANGED <<slotLock, bookingLock, response>>
            ELSE Return(w, c, "NotFound", "client not found")
  /\ UNCHANGED <<slots, bookings, commits, scope, roles, userRoles>>

\* The status check of CreateBooking on the locked slot row.
SlotNotCancelled(slot) == slot.status # TimeSlotStatusCancelled

SlotIsFree(slot) == slot.status = TimeSlotStatusPlanned

\* SELECT ... FOR UPDATE of the slot row, then the status check.
CreateBookingLockSlot(w) ==
  /\ pc[w] = "cb_lock"
  /\ LET c == call[w]
     IN IF c.slot \notin SlotIds
          THEN Return(w, c, "NotFound", "slot not found")
          ELSE /\ ~SlotLockedByOther(w, c.slot)
               /\ LET c2 == [c EXCEPT !.row = slots[c.slot]]
                  IN IF ~SlotIsFree(slots[c.slot])
                       THEN Return(w, c2, "FailedPrecondition", "slot is not free")
                       ELSE /\ pc' = [pc EXCEPT ![w] = "cb_client_ranges"]
                            /\ call' = [call EXCEPT ![w] = c2]
                            /\ slotLock' = slotLock \cup {<<c.slot, w>>}
                            /\ UNCHANGED <<bookingLock, response>>
  /\ UNCHANGED <<slots, bookings, commits, scope, roles, userRoles>>

CreateBookingClientRanges(w) ==
  /\ pc[w] = "cb_client_ranges"
  /\ LET c == call[w]
         newRange == TimeRange(c.row.starts, c.row.ends)
         clientRanges == listClientConfirmedBookingRangesTx(c.client, c.slot)
     IN IF HasOverlap(newRange, clientRanges, FALSE).has
          THEN Return(w, c, "FailedPrecondition", "client has conflicting booking")
          ELSE /\ pc' = [pc EXCEPT ![w] = "cb_provider_ranges"]
               /\ UNCHANGED <<call, slotLock, bookingLock, response>>
  /\ UNCHANGED <<slots, bookings, commits, scope, roles, userRoles>>

CreateBookingProviderRanges(w) ==
  /\ pc[w] = "cb_provider_ranges"
  /\ LET c == call[w]
         newRange == TimeRange(c.row.starts, c.row.ends)
         providerRanges == listProviderConfirmedBookingRangesTx(c.row.provider, c.slot)
     IN IF HasOverlap(newRange, providerRanges, FALSE).has
          THEN Return(w, c, "FailedPrecondition", "provider has conflicting booking")
          ELSE /\ pc' = [pc EXCEPT ![w] = "cb_insert"]
               /\ UNCHANGED <<call, slotLock, bookingLock, response>>
  /\ UNCHANGED <<slots, bookings, commits, scope, roles, userRoles>>

\* INSERT of the booking, UPDATE of the slot to booked, COMMIT. A failed
\* INSERT rolls the transaction back.
CreateBookingInsert(w) ==
  /\ pc[w] = "cb_insert"
  /\ LET c == call[w]
         booking == [client |-> c.client, slot |-> c.slot,
                     status |-> BookingStatusConfirmed, cancelledAt |-> <<>>,
                     comment |-> c.comment]
     IN IF ~UniqueSlotIdFree(c.slot)
          THEN /\ Return(w, c, "Internal", "create booking")
               /\ UNCHANGED <<slots, bookings, commits>>
          ELSE /\ bookings' = Append(bookings, booking)
               /\ slots' = [slots EXCEPT ![c.slot].status = TimeSlotStatusBooked]
               /\ Commit(w, [c EXCEPT !.booking = Len(bookings) + 1, !.out = booking])
  /\ UNCHANGED <<scope, roles, userRoles>>

\* --------------------------------------------------------- CheckAvailability

\* The request arrives; the client row is looked up. No transaction is begun:
\* every statement of the handler reads the rows committed when it runs.
CheckAvailabilityFindClient(w) ==
  /\ CanBegin(w)
  /\ \E clientID \in scope.clientIds, slotID \in scope.slotIds :
       LET c == [NoCall EXCEPT !.op = "CheckAvailability", !.client = clientID,
                               !.slot = slotID, !.c0 = commits,
                               !.seen = Seen(clientID, slotID)]
       IN IF clientID \in Clients
            THEN /\ pc' = [pc EXCEPT ![w] = "av_slot"]
                 /\ call' = [call EXCEPT ![w] = c]
                 /\ UNCHANGED <<slotLock, bookingLock, response>>
            ELSE Return(w, c, "NotFound", "client not found")
  /\ UNCHANGED <<slots, bookings, commits, scope, roles, userRoles>>

\* The answer available = false with its reason; it is no error.
Unavailable(w, c, reason) ==
  Return(w, [c EXCEPT !.available = FALSE, !.reason = reason], "OK", "")

\* slotRepo.GetByID as CreateBooking treats it: a missing slot and a slot that
\* is not free are errors.
CheckAvailabilityGetSlotStrict(w) ==
  /\ pc[w] = "av_slot"
  /\ LET c == call[w]
     IN IF c.slot \notin SlotIds
          THEN Return(w, c, "NotFound", "slot not found")
          ELSE IF ~SlotIsFree(slots[c.slot])
            THEN Return(w, c, "FailedPrecondition", "slot is not free")
          ELSE /\ pc' = [pc EXCEPT ![w] = "av_client_ranges"]
               /\ call' = [call EXCEPT ![w].row = slots[c.slot]]
               /\ UNCHANGED <<slotLock, bookingLock, response>>
  /\ UNCHANGED <<slots, bookings, commits, scope, roles, userRoles>>

\* slotRepo.GetByID, without a lock, then the status check.
CheckAvailabilityGetSlot(w) ==
  /\ pc[w] = "av_slot"
  /\ LET c == call[w]
     IN IF c.slot \notin SlotIds
          THEN Unavailable(w, c, "slot not found")
          ELSE IF slots[c.slot].status # TimeSlotStatusPlanned
            THEN Unavailable(w, [c EXCEPT !.row = slots[c.slot]], "slot is not free")
          ELSE /\ pc' = [pc EXCEPT ![w] = "av_client_ranges"]
               /\ call' = [call EXCEPT ![w].row = slots[c.slot]]
               /\ UNCHANGED <<slotLock, bookingLock, response>>
  /\ UNCHANGED <<slots, bookings, commits, scope, roles, userRoles>>

CheckAvailabilityClientRanges(w) ==
  /\ pc[w] = "av_client_ranges"
  /\ LET c == call[w]
         newRange == TimeRange(c.row.starts, c.row.ends)
         clientRanges == listClientConfirmedBookingRangesTx(c.client, c.slot)
     IN IF HasOverlap(newRange, clientRanges, FALSE).has
          THEN Unavailable(w, c, "client has conflicting booking")
          ELSE /\ pc' = [pc EXCEPT ![w] = "av_provider_ranges"]
               /\ UNCHANGED <<call, slotLock, bookingLock, response>>
  /\ UNCHANGED <<slots, bookings, commits, scope, roles, userRoles>>

CheckAvailabilityProviderRanges(w) ==
  /\ pc[w] = "av_provider_ranges"
  /\ LET c == call[w]
         newRange == TimeRange(c.row.starts, c.row.ends)
         providerRanges == listProviderConfirmedBookingRangesTx(c.row.provider, c.slot)
     IN IF HasOverlap(newRange, providerRanges, FALSE).has
          THEN Unavailable(w, c, "provider has conflicting booking")
          ELSE Return(w, [c EXCEPT !.available = TRUE], "OK", "")
  /\ UNCHANGED <<slots, bookings, commits, scope, roles, userRoles>>

\* ------------------------------------------------------------- CancelBooking

\* The check that makes a repeated CancelBooking a no-op.
NeverCancelled(booking) == FALSE

AlreadyCancelled(booking) == booking.status = BookingStatusCancelled

\* The request arrives; bookingRepo.GetByID reads the booking outside any
\* transaction. An already cancelled booking is returned as it is.
CancelBookingGet(w) ==
  /\ CanBegin(w)
  /\ \E bookingID \in BookingIds \cup scope.bookingIds :
       LET c == [NoCall EXCEPT !.op = "CancelBooking", !.booking = bookingID,
                               !.c0 = commits]
       IN IF bookingID \notin BookingIds
            THEN Return(w, c, "NotFound", "booking not found")
            ELSE LET booking == bookings[bookingID]
                     c2 == [c EXCEPT !.slot = booking.slot, !.out = booking]
                 IN IF AlreadyCancelled(booking)
                      THEN Return(w, c2, "OK", "")
                      ELSE /\ pc' = [pc EXCEPT ![w] = "ca_update_booking"]
                           /\ call' = [call EXCEPT ![w] = c2]
                           /\ UNCHANGED <<slotLock, bookingLock, response>>
  /\ UNCHANGED <<slots, bookings, commits, scope, roles, userRoles>>

\* The booking row as the UPDATE of CancelBooking writes it.
CancelledBookingKeepsTime(booking, now) ==
  [booking EXCEPT !.status = BookingStatusCancelled]

\* The cancellation putting the booking back to pending.
CancelledBookingPending(booking, now) ==
  [booking EXCEPT !.status = BookingStatusPending, !.cancelledAt = <<now>>]

CancelledBooking(booking, now) ==
  [booking EXCEPT !.status = BookingStatusCancelled, !.cancelledAt = <<now>>]

\* UPDATE bookings SET status = cancelled, cancelled_at = now WHERE id = ?
\* takes the booking's row lock; the new values stay private until COMMIT.
CancelBookingUpdateBooking(w) ==
  /\ pc[w] = "ca_update_booking"
  /\ ~BookingLockedByOther(w, call[w].booking)
  /\ bookingLock' = bookingLock \cup {<<call[w].booking, w>>}
  /\ pc' = [pc EXCEPT ![w] = "ca_update_slot"]
  /\ call' = [call EXCEPT ![w].now = Now]
  /\ UNCHANGED <<slots, bookings, slotLock, response, commits, scope, roles, userRoles>>

\* UPDATE time_slots SET status = planned WHERE id = booking.SlotID, COMMIT.
\* The slot of a cancelled booking left as it is.
FreedSlotStaysBooked(slot) == slot

\* UPDATE time_slots SET status = planned WHERE id = booking.SlotID
FreedSlot(slot) == [slot EXCEPT !.status = TimeSlotStatusPlanned]

CancelBookingUpdateSlot(w) ==
  /\ pc[w] = "ca_update_slot"
  /\ LET c == call[w]
     IN /\ ~SlotLockedByOther(w, c.slot)
        /\ bookings' = [bookings EXCEPT ![c.booking] = CancelledBooking(@, c.now)]
        /\ slots' = [slots EXCEPT ![c.slot] = FreedSlot(@)]
        /\ Commit(w, [c EXCEPT !.out = [c.out EXCEPT !.status = BookingStatusCancelled,
                                                     !.cancelledAt = <<c.now>>]])
  /\ UNCHANGED <<scope, roles, userRoles>>

\* --------------------------------------------------- BulkCancelProviderSlots

InWindowOverlapping(slot, window) == slot.starts < window[2] /\ slot.ends > window[1]

InWindow(slot, window) == slot.starts >= window[1] /\ slot.ends <= window[2]

\* The rows of the first query: bookings joined to their slots (and clients).
AffectedBookingRow(b) ==
  [bookingId |-> b, slotId |-> bookings[b].slot, clientId |-> bookings[b].client,
   providerId |-> slots[bookings[b].slot].provider,
   serviceId |-> IF slots[bookings[b].slot].service = NULL THEN ""
                 ELSE slots[bookings[b].slot].service,
   startsAt |-> slots[bookings[b].slot].starts,
   endsAt |-> slots[bookings[b].slot].ends]

AffectedBookings(providerID, window) ==
  {AffectedBookingRow(b) : b \in
     {b \in BookingIds : /\ slots[bookings[b].slot].provider = providerID
                         /\ InWindow(slots[bookings[b].slot], window)
                         /\ slots[bookings[b].slot].status # TimeSlotStatusCancelled
                         /\ bookings[b].status # BookingStatusCancelled}}

\* The rows the last UPDATE matches.
SlotsToCancel(providerID, window) ==
  {s \in SlotIds : /\ slots[s].provider = providerID
                   /\ InWindow(slots[s], window)
                   /\ slots[s].status # TimeSlotStatusCancelled}

\* The request arrives (end after start), the transaction begins and reads the
\* active bookings in the window.
BulkCancelSelect(w) ==
  /\ CanBegin(w)
  /\ \E providerID \in scope.providers, window \in scope.windows, reason \in scope.reasons :
       /\ window[2] > window[1]
       /\ pc' = [pc EXCEPT ![w] = "bk_update_bookings"]
       /\ call' = [call EXCEPT ![w] =
            [NoCall EXCEPT !.op = "BulkCancelProviderSlots", !.provider = providerID,
                           !.window = window, !.reason = reason, !.c0 = commits,
                           !.rows = AffectedBookings(providerID, window)]]
  /\ UNCHANGED <<slots, bookings, slotLock, bookingLock, response, commits, scope, roles, userRoles>>

\* UPDATE bookings ... WHERE id IN (rows) AND status <> cancelled, run only
\* when the first query returned rows; it locks the rows it changes.
BulkCancelUpdateBookings(w) ==
  /\ pc[w] = "bk_update_bookings"
  /\ LET c == call[w]
         ids == {r.bookingId : r \in c.rows}
         hit == {b \in ids : bookings[b].status # BookingStatusCancelled}
     IN /\ \A b \in hit : ~BookingLockedByOther(w, b)
        /\ bookingLock' = bookingLock \cup {<<b, w>> : b \in hit}
        /\ call' = [call EXCEPT ![w] = [c EXCEPT !.pending = hit, !.now = Now,
                                                 !.nBookings = Cardinality(hit)]]
        /\ pc' = [pc EXCEPT ![w] = "bk_update_slots"]
  /\ UNCHANGED <<slots, bookings, slotLock, response, commits, scope, roles, userRoles>>

\* The reason written whether it is given or not.
BulkCommentAlways(booking, reason) == reason

\* The comment of a booking the bulk cancellation cancels: the reason, when
\* the request has one.
BulkComment(booking, reason) == IF reason # "" THEN reason ELSE booking.comment

\* The bookings and slots a bulk cancellation writes at its COMMIT: the
\* bookings its UPDATE locked and the slots `hit` of its last UPDATE.
BulkCancelCommit(w, c, hit) ==
  /\ bookings' = [b \in BookingIds |->
       IF b \in c.pending
         THEN [bookings[b] EXCEPT !.status = BookingStatusCancelled,
                                  !.cancelledAt = <<c.now>>,
                                  !.comment = BulkComment(bookings[b], c.reason)]
         ELSE bookings[b]]
  /\ slots' = [s \in SlotIds |->
       IF s \in hit THEN [slots[s] EXCEPT !.status = TimeSlotStatusCancelled]
                    ELSE slots[s]]
  /\ Commit(w, [c EXCEPT !.nSlots = Cardinality(hit), !.waitSlots = {}])

\* UPDATE time_slots SET status = cancelled WHERE provider, window and
\* status <> cancelled, then COMMIT. The statement picks its rows when it
\* starts; when one of them is locked by another transaction it waits, and
\* when the locks are gone it checks its WHERE clause again on the newest
\* version of the rows it had picked.
BulkCancelUpdateSlots(w) ==
  /\ pc[w] \in {"bk_update_slots", "bk_update_slots_wait"}
  /\ LET c == call[w]
         picked == IF pc[w] = "bk_update_slots"
                     THEN SlotsToCancel(c.provider, c.window) ELSE c.waitSlots
     IN IF \A s \in picked : ~SlotLockedByOther(w, s)
          THEN BulkCancelCommit(w, c, picked \cap SlotsToCancel(c.provider, c.window))
          ELSE /\ pc[w] = "bk_update_slots"
               /\ pc' = [pc EXCEPT ![w] = "bk_update_slots_wait"]
               /\ call' = [call EXCEPT ![w].waitSlots = picked]
               /\ UNCHANGED <<slots, bookings, slotLock, bookingLock, response, commits>>
  /\ UNCHANGED <<scope, roles, userRoles>>

\* ------------------------------------------- ListFreeSlots and materialization

DefaultPageSize == 20

\* The schedules table, as ListByProvider orders it (created_at DESC). A row's
\* Rules column is the decoded rule, Nil when it cannot be decoded. Provider p1
\* offers a slot in the second minute of every day and, until the end of day
\* 2, a slot in the third minute of Wednesdays and Mondays; p2 has no start
\* date and offers two slots of two minutes, every second day but not on day 2.
ScheduleSeed ==
  << [ID |-> "s1", ProviderID |-> "p1", StartDate |-> Some(0), EndDate |-> Nil,
      Rules |-> Some([StartsAt |-> Some(Minute), Frequency |-> "DAILY", Interval |-> 1,
                      Weekdays |-> << >>, Until |-> Nil, Count |-> 0,
                      DurationMin |-> 1, Exceptions |-> << >>])],
     [ID |-> "s2", ProviderID |-> "p1", StartDate |-> Some(0), EndDate |-> Some(2),
      Rules |-> Some([StartsAt |-> Some(2 * Minute), Frequency |-> "WEEKLY", Interval |-> 1,
                      Weekdays |-> <<3, 1>>, Until |-> Nil, Count |-> 0,
                      DurationMin |-> 1, Exceptions |-> << >>])],
     [ID |-> "s3", ProviderID |-> "p2", StartDate |-> Nil, EndDate |-> Nil,
      Rules |-> Some([StartsAt |-> Some(Minute), Frequency |-> "DAILY", Interval |-> 2,
                      Weekdays |-> << >>, Until |-> Nil, Count |-> 2,
                      DurationMin |-> 2, Exceptions |-> <<2 * DayLen>>])],
     [ID |-> "s4", ProviderID |-> "p3", StartDate |-> Some(0), EndDate |-> Nil,
      Rules |-> Some([StartsAt |-> Some(Minute), Frequency |-> "DAILY", Interval |-> 1,
                      Weekdays |-> << >>, Until |-> Nil, Count |-> 0,
                      DurationMin |-> 1, Exceptions |-> << >>])],
     [ID |-> "s5", ProviderID |-> "p3", StartDate |-> Some(0), EndDate |-> Nil,
      Rules |-> Some([StartsAt |-> Some(Minute), Frequency |-> "WEEKLY", Interval |-> 1,
                      Weekdays |-> <<1>>, Until |-> Nil, Count |-> 0,
                      DurationMin |-> 1, Exceptions |-> << >>])] >>

ListByProvider(providerID) ==
  SelectSeq(ScheduleSeed, LAMBDA sched : sched.ProviderID = providerID)

\* The result is [err, intervals]: err is "" when the call succeeds.
expandScheduleModelInWindowUTC(sched, fromUTC, toUTC) ==
  IF sched.Rules = Nil \/ ~(toUTC > fromUTC) THEN [err |-> "", intervals |-> << >>]
  ELSE
    LET rulePB == sched.Rules[1]
        windowStart == IF sched.StartDate # Nil /\ fromUTC < sched.StartDate[1] * DayLen
                         THEN sched.StartDate[1] * DayLen ELSE fromUTC
        windowEnd == IF sched.EndDate # Nil /\ toUTC > EndOfDay(sched.EndDate[1])
                       THEN EndOfDay(sched.EndDate[1]) ELSE toUTC
        window == TimeRange(windowStart, windowEnd)
        baseDate == IF sched.StartDate # Nil THEN sched.StartDate[1] * DayLen
                    ELSE window.Start
        startTime == Midnight(baseDate) + Clock(rulePB.StartsAt[1])
        freq == IF rulePB.Frequency = "WEEKLY" THEN FreqWeekly ELSE FreqDaily
        valid == SelectSeq(rulePB.Weekdays, LAMBDA d : d >= 1 /\ d <= 7)
        weekdays == [i \in DOMAIN valid |-> IF valid[i] = 7 THEN Sunday ELSE valid[i]]
        until == IF rulePB.Until # Nil THEN rulePB.Until
                 ELSE IF sched.EndDate # Nil THEN Some(EndOfDay(sched.EndDate[1]))
                 ELSE Nil
        count == IF rulePB.Count > 0 THEN Some(rulePB.Count) ELSE Nil
        exceptions == {DayOf(rulePB.Exceptions[i]) : i \in DOMAIN rulePB.Exceptions}
        rule == [Freq |-> freq, Interval |-> rulePB.Interval, Weekdays |-> weekdays,
                 StartTime |-> startTime, Duration |-> rulePB.DurationMin * Minute,
                 Until |-> until, Count |-> count, Exceptions |-> exceptions]
        expanded == ExpandRecurringRule(rule, window)
    IN IF ~(window.End > window.Start) THEN [err |-> "", intervals |-> << >>]
       ELSE IF rulePB.StartsAt = Nil
         THEN [err |-> "rule.starts_at is required", intervals |-> << >>]
       ELSE [err |-> expanded.err, intervals |-> expanded.result]

makeSlotKey(serviceID, start, end) ==
  <<IF serviceID = NULL THEN "" ELSE serviceID, start, end>>

\* Slot ids ordered by starts_at (ties by id).
RECURSIVE OrderSlotsByStartsAt(_)
OrderSlotsByStartsAt(ids) ==
  IF ids = {} THEN << >>
  ELSE LET first == CHOOSE s \in ids : \A o \in ids :
                      \/ slots[s].starts < slots[o].starts
                      \/ slots[s].starts = slots[o].starts /\ s <= o
       IN <<first>> \o OrderSlotsByStartsAt(ids \ {first})

\* The staged rows in insert order: by start, then by end. Rows equal in both
\* come in the order of their schedules; which of them gets which generated
\* id does not matter.
RECURSIVE SortStaged(_, _)
SortStaged(occ, staged) ==
  IF staged = {} THEN << >>
  ELSE LET Range(p) == occ[p[1]].occurrences[p[2]]
           Before(p, q) ==
             \/ Range(p).Start < Range(q).Start
             \/ Range(p).Start = Range(q).Start /\ Range(p).End < Range(q).End
             \/ /\ Range(p).Start = Range(q).Start /\ Range(p).End = Range(q).End
                /\ (p[1] < q[1] \/ (p[1] = q[1] /\ p[2] <= q[2]))
           first == CHOOSE p \in staged : \A q \in staged : Before(p, q)
       IN <<first>> \o SortStaged(occ, staged \ {first})

\* The request arrives: the provider's schedules are read and expanded to
\* their occurrences in the window, before any transaction begins.
ListFreeSlots(w) ==
  /\ CanBegin(w)
  /\ \E providerID \in scope.providers, serviceID \in scope.services,
        window \in scope.windows, paging \in scope.pages :
       LET c == [NoCall EXCEPT !.op = "ListFreeSlots", !.provider = providerID,
                               !.service = serviceID, !.window = window,
                               !.page = paging[1], !.pageSize = paging[2],
                               !.c0 = commits,
                               !.repeat = /\ response.op = "ListFreeSlots"
                                          /\ response.code = "OK"
                                          /\ response.provider = providerID
                                          /\ response.service = serviceID
                                          /\ response.window = window
                                          /\ \A o \in Workers : pc[o] = "idle",
                               !.afterBulk = /\ response.op = "BulkCancelProviderSlots"
                                             /\ response.code = "OK"
                                             /\ response.provider = providerID
                                             /\ response.window = window
                                             /\ \A o \in Workers : pc[o] = "idle"]
           schedules == ListByProvider(providerID)
           expanded == [i \in DOMAIN schedules |->
                          expandScheduleModelInWindowUTC(schedules[i], window[1], window[2])]
           all == [i \in DOMAIN schedules |->
                     [schedule |-> schedules[i].ID, occurrences |-> expanded[i].intervals]]
           occBySchedule == SelectSeq(all, LAMBDA o : Len(o.occurrences) > 0)
       IN IF ~(window[2] > window[1])
            THEN Return(w, c, "InvalidArgument", "end must be after start")
          ELSE IF \E i \in DOMAIN expanded : expanded[i].err # ""
            THEN Return(w, c, "Internal", "materialize schedule slots")
          ELSE /\ pc' = [pc EXCEPT ![w] =
                    IF Len(occBySchedule) = 0 THEN "lf_list" ELSE "mat_existing"]
               /\ call' = [call EXCEPT ![w] = [c EXCEPT !.occ = occBySchedule]]
               /\ UNCHANGED <<slotLock, bookingLock, response>>
  /\ UNCHANGED <<slots, bookings, commits, scope, roles, userRoles>>

\* The transaction begins and reads the slots that exist in the window; every
\* occurrence whose key is not among them is staged.
materializeFindExisting(w) ==
  /\ pc[w] = "mat_existing"
  /\ LET c == call[w]
         existing == {s \in SlotIds : /\ slots[s].provider = c.provider
                                      /\ slots[s].starts >= c.window[1]
                                      /\ slots[s].ends <= c.window[2]
                                      /\ slots[s].service = c.service}
         existingByKey == {makeSlotKey(slots[s].service, slots[s].starts, slots[s].ends) :
                             s \in existing}
         candidates == UNION {{<<i, j>> : j \in DOMAIN c.occ[i].occurrences} :
                                i \in DOMAIN c.occ}
         staged == {p \in candidates :
                         makeSlotKey(c.service, c.occ[p[1]].occurrences[p[2]].Start,
                                     c.occ[p[1]].occurrences[p[2]].End) \notin existingByKey}
         order == SortStaged(c.occ, staged)
         toCreate == [i \in DOMAIN order |->
                        [provider |-> c.provider, service |-> c.service,
                         starts |-> c.occ[order[i][1]].occurrences[order[i][2]].Start,
                         ends |-> c.occ[order[i][1]].occurrences[order[i][2]].End,
                         status |-> TimeSlotStatusPlanned,
                         schedule |-> c.occ[order[i][1]].schedule]]
     IN /\ pc' = [pc EXCEPT ![w] = IF staged = {} THEN "lf_list" ELSE "mat_create"]
        /\ call' = [call EXCEPT ![w] = [c EXCEPT !.occ = << >>, !.toCreate = toCreate]]
  /\ UNCHANGED <<slots, bookings, slotLock, bookingLock, response, commits, scope, roles, userRoles>>

\* The staged rows put in the place of the table.
InsertSlotsReplacing(rows, toCreate) == toCreate

\* tx.Create(&toCreate): the rows are added to the table.
InsertSlots(rows, toCreate) == rows \o toCreate

\* INSERT of the staged rows, then COMMIT.
materializeCreate(w) ==
  /\ pc[w] = "mat_create"
  /\ slots' = InsertSlots(slots, call[w].toCreate)
  /\ commits' = commits + 1
  /\ pc' = [pc EXCEPT ![w] = "lf_list"]
  /\ call' = [call EXCEPT ![w].toCreate = << >>]
  /\ UNCHANGED <<bookings, slotLock, bookingLock, response, scope, roles, userRoles>>

\* No row of the page is taken to have a nil ServiceID.
NilServiceIDNever(list) == FALSE

\* The response is built with slot.ServiceID.String() for every row of the
\* page: ServiceID is a *uuid.UUID and String has a value receiver, so the
\* call panics for a row whose service_id is NULL.
NilServiceID(list) == \E i \in DOMAIN list : slots[list[i]].service = NULL

\* The repository query: the provider's planned slots inside the window, of
\* the service when one is asked for, counted and returned one page of them.
ListFreeSlotsQuery(w) ==
  /\ pc[w] = "lf_list"
  /\ LET c == call[w]
         page == IF c.page <= 0 THEN 1 ELSE c.page
         size == IF c.pageSize <= 0 THEN DefaultPageSize ELSE c.pageSize
         offset == (page - 1) * size
         found == {s \in SlotIds : /\ slots[s].provider = c.provider
                                   /\ slots[s].starts >= c.window[1]
                                   /\ slots[s].ends <= c.window[2]
                                   /\ slots[s].status = TimeSlotStatusPlanned
                                   /\ c.service # NULL => slots[s].service = c.service}
         ordered == OrderSlotsByStartsAt(found)
         last == IF offset + size < Len(ordered) THEN offset + size ELSE Len(ordered)
         list == IF last > offset THEN SubSeq(ordered, offset + 1, last) ELSE << >>
     IN IF NilServiceID(list)
          THEN Panic(w, [c EXCEPT !.total = Cardinality(found)])
          ELSE Return(w, [c EXCEPT !.list = list, !.total = Cardinality(found)], "OK", "")
  /\ UNCHANGED <<slots, bookings, commits, scope, roles, userRoles>>

\* ------------------------------------------------------ SetRole and GetRole
\*
\* GormUserRepository.SetRole runs its statements on r.db, outside any
\* transaction: each statement commits by itself and other workers'
\* statements may run between two of them.

MaxSetRoles == 3
Users == {"u1", "u2"}
RoleCodes == {"client", "provider"}

ErrRecordNotFound == "record not found"
ErrDuplicateKey == "duplicate key"

NoIdentityCall == [op |-> "none", user |-> NULL, roleCode |-> "", err |-> ""]

InitRoles ==
  /\ slots = << >>
  /\ bookings = << >>
  /\ slotLock = {}
  /\ bookingLock = {}
  /\ pc = [w \in Workers |-> "idle"]
  /\ call = [w \in Workers |-> NoIdentityCall]
  /\ response = NoIdentityCall
  /\ commits = 0
  /\ scope = [workers |-> Workers, maxCommits |-> MaxSetRoles]
  /\ roles = {}
  /\ userRoles = {}

UserRolesOf(user) == {ur \in userRoles : ur[2] = user}

IdentityStep(w, next, c) ==
  /\ pc' = [pc EXCEPT ![w] = next]
  /\ call' = [call EXCEPT ![w] = c]
  /\ UNCHANGED <<slots, bookings, slotLock, bookingLock, response, commits, scope>>

IdentityReturn(w, c, err) ==
  /\ pc' = [pc EXCEPT ![w] = "idle"]
  /\ call' = [call EXCEPT ![w] = NoIdentityCall]
  /\ response' = [c EXCEPT !.err = err]
  /\ commits' = commits + 1
  /\ UNCHANGED <<slots, bookings, slotLock, bookingLock, scope>>

\* SELECT * FROM roles WHERE code = ?
SetRoleFindRole(w) ==
  /\ CanBegin(w)
  /\ \E user \in Users, roleCode \in RoleCodes :
       LET c == [op |-> "SetRole", user |-> user, roleCode |-> roleCode, err |-> ""]
       IN IdentityStep(w, IF roleCode \in roles THEN "sr_delete" ELSE "sr_create_role", c)
  /\ UNCHANGED <<roles, userRoles>>

\* INSERT INTO roles: the unique index on code refuses a second row.
SetRoleCreateRole(w) ==
  /\ pc[w] = "sr_create_role"
  /\ LET c == call[w]
     IN IF c.roleCode \in roles
          THEN IdentityReturn(w, c, ErrDuplicateKey) /\ UNCHANGED roles
          ELSE IdentityStep(w, "sr_delete", c) /\ roles' = roles \cup {c.roleCode}
  /\ UNCHANGED userRoles

\* DELETE FROM user_roles WHERE user_id = ?
DeleteUserRoles(user) == userRoles \ UserRolesOf(user)

SetRoleDelete(w) ==
  /\ pc[w] = "sr_delete"
  /\ userRoles' = DeleteUserRoles(call[w].user)
  /\ IdentityStep(w, "sr_insert", call[w])
  /\ UNCHANGED roles

\* INSERT INTO user_roles (role_id, user_id): the primary key is the pair.
SetRoleInsert(w) ==
  /\ pc[w] = "sr_insert"
  /\ LET c == call[w]
         ur == <<c.roleCode, c.user>>
     IN IF ur \in userRoles
          THEN IdentityReturn(w, c, ErrDuplicateKey) /\ UNCHANGED userRoles
          ELSE IdentityReturn(w, c, "") /\ userRoles' = userRoles \cup {ur}
  /\ UNCHANGED roles

\* SELECT * FROM user_roles WHERE user_id = ? ORDER BY role_id LIMIT 1, then
\* the role's code; any of the user's rows when the order does not decide.
GetRole(w) ==
  /\ CanBegin(w)
  /\ \E user \in Users :
       LET c == [op |-> "GetRole", user |-> user, roleCode |-> "", err |-> ""]
       IN IF UserRolesOf(user) = {}
            THEN IdentityReturn(w, c, ErrRecordNotFound)
            ELSE \E ur \in UserRolesOf(user) :
                   IdentityReturn(w, [c EXCEPT !.roleCode = ur[1]], "")
  /\ UNCHANGED <<roles, userRoles>>

\* ---------------------------------------------------------- validateSlotModel

\* The checks in another order: the provider before the status.
validateSlotModelProviderFirst(slot, expectedProviderID, expectedServiceID) ==
  IF slot = NoRow THEN [ok |-> FALSE, reason |-> "slot not found"]
  ELSE IF ~(slot.ends > slot.starts)
    THEN [ok |-> FALSE, reason |-> "invalid slot time range"]
  ELSE IF expectedProviderID # "" /\ slot.provider # expectedProviderID
    THEN [ok |-> FALSE, reason |-> "slot provider mismatch"]
  ELSE IF slot.status # TimeSlotStatusPlanned
    THEN [ok |-> FALSE, reason |-> "slot is not free"]
  ELSE [ok |-> TRUE, reason |-> ""]

\* slot is a time_slots row or NoRow (a nil pointer); an expected id of ""
\* is an id that was not given.
validateSlotModel(slot, expectedProviderID, expectedServiceID) ==
  IF slot = NoRow THEN [ok |-> FALSE, reason |-> "slot not found"]
  ELSE IF ~(slot.ends > slot.starts)
    THEN [ok |-> FALSE, reason |-> "invalid slot time range"]
  ELSE IF slot.status # TimeSlotStatusPlanned
    THEN [ok |-> FALSE, reason |-> "slot is not free"]
  ELSE IF expectedProviderID # "" /\ slot.provider # expectedProviderID
    THEN [ok |-> FALSE, reason |-> "slot provider mismatch"]
  ELSE IF expectedServiceID # ""
          /\ (IF slot.service # NULL THEN slot.service ELSE "") # expectedServiceID
    THEN [ok |-> FALSE, reason |-> "slot service mismatch"]
  ELSE [ok |-> TRUE, reason |-> ""]

\* ------------------------------------------------------------------ Paginate

\* Go's int wraps around on overflow. The program's int is 64 bits wide; the
\* model keeps the wrap-around with a width of IntBits bits.
IntBits == 6
IntModulus == 2 ^ IntBits
MinInt == -(2 ^ (IntBits - 1))
MaxInt == (2 ^ (IntBits - 1)) - 1
WrapInt(n) == ((n - MinInt) % IntModulus) + MinInt

defaultPageSize == 10

\* The result of a call that panicked.
Panicked == [panic |-> TRUE, Items |-> << >>, Page |-> 0, PageSize |-> 0,
             HasNext |-> FALSE, HasPrev |-> FALSE, Total |-> 0]

\* items[start:end] panics unless 0 <= start <= end <= cap(items).
Paginate(items, page0, pageSize0) ==
  LET total == Len(items)
      pageSize == IF pageSize0 <= 0 THEN defaultPageSize ELSE pageSize0
      page == IF page0 <= 0 THEN 1 ELSE page0
      start0 == WrapInt((page - 1) * pageSize)
      start == IF start0 > total THEN total ELSE start0
      end0 == WrapInt(start + pageSize)
      end == IF end0 > total THEN total ELSE end0
  IN IF start < 0 \/ end < start
       THEN Panicked
       ELSE [panic |-> FALSE, Items |-> SubSeq(items, start + 1, end),
             Page |-> page, PageSize |-> pageSize,
             HasNext |-> end < total, HasPrev |-> page > 1, Total |-> total]

SlicePage(items, page, pageSize) == Paginate(items, page, pageSize)

\* ------------------------------------------------- calls of the calendar utils

\* The largest count of a rule.
MaxCount == 3

\* The rules ExpandRecurringRule is called with. Valid ones: daily and
\* weekly, a step given or left 0, weekday lists that are empty, unsorted,
\* repeated or hold a Sunday, a duration shorter than a day or longer than
\* one, with and without until, count and exception dates.
ValidRules ==
  [Freq : {FreqDaily, FreqWeekly},
   Interval : {0, 1, 2},
   Weekdays : {<< >>, <<3, 1>>, <<Sunday, 1>>, <<2, 2>>},
   StartTime : {Minute, DayLen + 2 * Minute},
   Duration : {Minute, DayLen + Minute},
   Until : {Nil, Some(2 * DayLen + Minute), Some(7 * DayLen + 2 * Minute)},
   Count : {Nil} \cup {Some(n) : n \in 0..MaxCount},
   Exceptions : {{}, {1}, {0, 2}}]

\* Rules without a start time or a duration.
InvalidRules ==
  [Freq : {FreqDaily, FreqWeekly},
   Interval : {0, 1},
   Weekdays : {<< >>, <<3, 1>>},
   StartTime : {ZeroTime, Minute},
   Duration : {0, Minute},
   Until : {Nil},
   Count : {Nil, Some(1)},
   Exceptions : {{}}]

ExpandRules == ValidRules \cup InvalidRules

\* Windows: empty, inside one day, over a few days, over more than a week;
\* with bounds at midnight and inside an occurrence.
ExpandWindows ==
  {TimeRange(a, b) : a \in {0, Minute + 1, DayLen + Minute},
                     b \in {0, DayLen, 3 * DayLen + Minute + 1, 9 * DayLen}}

ExpandInputs(rules, windows) ==
  {[op |-> "ExpandRecurringRule", rule |-> r, window |-> win,
    err |-> "", result |-> << >>] : r \in rules, win \in windows}

MaxInstant == 6
NormalizeInputs ==
  {[op |-> "NormalizeTimeRange", start |-> a, end |-> b, maxDuration |-> m,
    err |-> "", result |-> TimeRange(ZeroTime, ZeroTime)] :
     a \in {ZeroTime} \cup 0..MaxInstant, b \in {ZeroTime} \cup 0..MaxInstant,
     m \in {-1, 0, 1, Minute, Minute + 1, DayLen}}

SplitInputs(starts, ends) ==
  {[op |-> "SplitToTimeSlots", tr |-> TimeRange(a, b), slotDuration |-> d,
    alignMinutes |-> al, err |-> "", result |-> << >>] :
     a \in starts, b \in ends,
     d \in {-Minute, 0, 1, Minute, Minute + 1, 2 * Minute, HourLen},
     al \in {-1, 0, 1, 2, 3, MinutesPerHour}}

\* Ranges between instants 0..MaxBound, the reversed and the empty ones too.
MaxBound == 2
AnyRanges == {TimeRange(a, b) : a, b \in 0..MaxBound}
ProperRanges == {tr \in AnyRanges : tr.Start < tr.End}

OverlapInputs ==
  {[op |-> "rangesOverlap", a |-> a, b |-> b, inclusive |-> i,
    ab |-> FALSE, ba |-> FALSE] : a, b \in AnyRanges, i \in BOOLEAN}

\* Lists of existing ranges of every length up to MaxExisting, in any order
\* and with repetitions.
MaxExisting == 3
ExistingLists(maxLen) == UNION {[1..n -> ProperRanges] : n \in 0..maxLen}

HasOverlapInputs(lists) ==
  {[op |-> "HasOverlap", newRange |-> n, existing |-> e, inclusive |-> i,
    has |-> FALSE, conflicts |-> << >>] :
     n \in ProperRanges, e \in lists, i \in BOOLEAN}

\* Slots of every status, with and without a service, with a proper, an
\* empty and a reversed time range, and no slot at all; each expected id
\* given or left empty.
ValidateInputs ==
  {[op |-> "validateSlotModel", slot |-> sl, expectedProviderID |-> ep,
    expectedServiceID |-> es, ok |-> FALSE, reason |-> ""] :
     sl \in {NoRow} \cup
            [provider : Providers, service : {NULL, "a", "b"}, starts : 0..MaxBound,
             ends : 0..MaxBound, schedule : {NULL},
             status : {TimeSlotStatusPlanned, TimeSlotStatusBooked, TimeSlotStatusCancelled}],
     ep \in {""} \cup Providers, es \in {"", "a", "b"}}

\* Lists of up to MaxItems distinct items, more than a default page holds.
MaxItems == 11
PageNumbers ==
  {MinInt, -1, MaxInt, (2 ^ (IntBits - 3)) + 1, (2 ^ (IntBits - 2)) + 1} \cup 0..4
PageSizes == {MinInt, -1, MaxInt} \cup 0..5
PaginateInputs ==
  {[op |-> "Paginate", items |-> [k \in 1..n |-> 100 + k], page |-> pg,
    pageSize |-> ps, result |-> Panicked, slice |-> Panicked] :
     n \in 0..MaxItems, pg \in PageNumbers, ps \in PageSizes}

\* Schedules whose rule has no count: daily and weekly, every day or every
\* second one, with and without a start date, an end date and an exception.
WindowSchedules ==
  [ID : {"s"}, ProviderID : {"p1"}, StartDate : {Nil, Some(0)}, EndDate : {Nil, Some(2)},
   Rules : {Some(r) : r \in
     [StartsAt : {Some(Minute)}, Frequency : {"DAILY", "WEEKLY"}, Interval : {1, 2},
      Weekdays : {<< >>, <<3, 1>>, <<7, 1>>}, Until : {Nil}, Count : {0},
      DurationMin : {1, MinutesPerDay + 1}, Exceptions : {<< >>, <<DayLen>>}]}]

\* The bounds of the query windows: at midnight and inside an occurrence.
WindowBounds == {0, Minute + 1, DayLen, 2 * DayLen, 3 * DayLen + 1, 9 * DayLen}

\* A schedule expanded for a window and for a window inside it.
ScheduleInputs ==
  {[op |-> "expandScheduleModelInWindowUTC", sched |-> sc,
    outer |-> TimeRange(a1, b1), inner |-> TimeRange(a2, b2),
    outerErr |-> "", outerIntervals |-> << >>,
    innerErr |-> "", innerIntervals |-> << >>] :
     sc \in WindowSchedules,
     <<a1, a2, b2, b1>> \in {q \in WindowBounds \X WindowBounds \X WindowBounds \X WindowBounds :
                               q[1] <= q[2] /\ q[2] < q[3] /\ q[3] <= q[4]}}

UtilInputs(maxLen) ==
  ExpandInputs(ExpandRules, ExpandWindows) \cup NormalizeInputs
    \cup SplitInputs(0..(HourLen + 1), 0..(2 * HourLen + 2)) \cup OverlapInputs
    \cup HasOverlapInputs(ExistingLists(maxLen))
    \cup ValidateInputs \cup PaginateInputs \cup ScheduleInputs

\* One call of a utility function: the arguments are given, the function has
\* not run yet.
InitUtils ==
  /\ slots = << >>
  /\ bookings = << >>
  /\ slotLock = {}
  /\ bookingLock = {}
  /\ \E input \in UtilInputs(MaxExisting) :
       /\ call = [w \in Workers |-> IF w = 1 THEN input ELSE NoCall]
       /\ pc = [w \in Workers |-> IF w = 1 THEN input.op ELSE "idle"]
  /\ response = NoCall
  /\ commits = 0
  /\ roles = {}
  /\ userRoles = {}
  /\ scope = [workers |-> {1}]

\* The function returns to its caller.
UtilReturn(w, r) ==
  /\ pc' = [pc EXCEPT ![w] = "idle"]
  /\ call' = [call EXCEPT ![w] = NoCall]
  /\ response' = r
  /\ UNCHANGED <<slots, bookings, slotLock, bookingLock, commits, scope, roles, userRoles>>

ExpandRecurringRuleCall(w) ==
  /\ pc[w] = "ExpandRecurringRule"
  /\ LET c == call[w]
         r == ExpandRecurringRule(c.rule, c.window)
     IN UtilReturn(w, [c EXCEPT !.err = r.err, !.result = r.result])

NormalizeTimeRangeCall(w) ==
  /\ pc[w] = "NormalizeTimeRange"
  /\ LET c == call[w]
         r == NormalizeTimeRange(c.start, c.end, c.maxDuration)
     IN UtilReturn(w, [c EXCEPT !.err = r.err, !.result = r.result])

SplitToTimeSlotsCall(w) ==
  /\ pc[w] = "SplitToTimeSlots"
  /\ LET c == call[w]
         r == SplitToTimeSlots(c.tr, c.slotDuration, c.alignMinutes)
     IN UtilReturn(w, [c EXCEPT !.err = r.err, !.result = r.result])

\* rangesOverlap applied to the two ranges in both orders.
rangesOverlapCall(w) ==
  /\ pc[w] = "rangesOverlap"
  /\ LET c == call[w]
     IN UtilReturn(w, [c EXCEPT !.ab = rangesOverlap(c.a, c.b, c.inclusive),
                                !.ba = rangesOverlap(c.b, c.a, c.inclusive)])

HasOverlapCall(w) ==
  /\ pc[w] = "HasOverlap"
  /\ LET c == call[w]
         r == HasOverlap(c.newRange, c.existing, c.inclusive)
     IN UtilReturn(w, [c EXCEPT !.has = r.has, !.conflicts = r.conflicts])

validateSlotModelCall(w) ==
  /\ pc[w] = "validateSlotModel"
  /\ LET c == call[w]
         r == validateSlotModel(c.slot, c.expectedProviderID, c.expectedServiceID)
     IN UtilReturn(w, [c EXCEPT !.ok = r.ok, !.reason = r.reason])

\* Paginate and SlicePage applied to the same arguments.
PaginateCall(w) ==
  /\ pc[w] = "Paginate"
  /\ LET c == call[w]
     IN UtilReturn(w, [c EXCEPT !.result = Paginate(c.items, c.page, c.pageSize),
                                !.slice = SlicePage(c.items, c.page, c.pageSize)])

\* expandScheduleModelInWindowUTC applied to one schedule and two windows.
expandScheduleModelInWindowUTCCall(w) ==
  /\ pc[w] = "expandScheduleModelInWindowUTC"
  /\ LET c == call[w]
         o == expandScheduleModelInWindowUTC(c.sched, c.outer.Start, c.outer.End)
         i == expandScheduleModelInWindowUTC(c.sched, c.inner.Start, c.inner.End)
     IN UtilReturn(w, [c EXCEPT !.outerErr = o.err, !.outerIntervals = o.intervals,
                                !.innerErr = i.err, !.innerIntervals = i.intervals])

\* ------------------------------------ the loops of ExpandRecurringRule, by step

\* ExpandRecurringRule run one loop iteration at a time: call[w] holds the
\* rule, the window, the cursor of the loop (cur or weekCursor) and the
\* result gathered so far.

\* The rules and windows of these runs: with and without until and count,
\* a start far before the window, exception dates on every day of a window.
LoopRules ==
  [Freq : {FreqDaily, FreqWeekly},
   Interval : {0, 1, 2},
   Weekdays : {<< >>, <<3, 1>>, <<Sunday, 1>>},
   StartTime : {Minute, DayLen + 2 * Minute},
   Duration : {Minute, DayLen + Minute},
   Until : {Nil, Some(2 * DayLen + Minute)},
   Count : {Nil, Some(0), Some(2)},
   Exceptions : {{}, {1}, 0..3, 8..10}]

LoopWindows ==
  {TimeRange(a, b) : a \in {0, 8 * DayLen}, b \in {0, DayLen, 3 * DayLen + Minute + 1, 10 * DayLen}}

\* The last day a loop iteration may begin on; every loop of the rules and
\* windows above ends before it.
MaxCursorDay == 40

InitExpandLoop ==
  /\ slots = << >>
  /\ bookings = << >>
  /\ slotLock = {}
  /\ bookingLock = {}
  /\ \E r \in LoopRules, win \in LoopWindows :
       call = [w \in Workers |->
                 IF w = 1 THEN [op |-> "ExpandRecurringRuleLoop", rule |-> r, window |-> win,
                                cur |-> ZeroTime,
                                acc |-> [result |-> << >>, countGenerated |-> 0,
                                         returned |-> FALSE],
                                iterations |-> 0, err |-> "", result |-> << >>]
                 ELSE NoCall]
  /\ pc = [w \in Workers |-> IF w = 1 THEN "expand_begin" ELSE "idle"]
  /\ response = NoCall
  /\ commits = 0
  /\ roles = {}
  /\ userRoles = {}
  /\ scope = [workers |-> {1}]

\* The checks before the loops, and the choice of the loop.
ExpandBegin(w) ==
  /\ pc[w] = "expand_begin"
  /\ LET c == call[w]
         rule == defaultInterval(c.rule)
     IN IF c.rule.Duration <= 0
          THEN UtilReturn(w, [c EXCEPT !.err = "recurring rule: duration must be positive"])
        ELSE IF rule.StartTime = ZeroTime
          THEN UtilReturn(w, [c EXCEPT !.err = "recurring rule: StartTime is required"])
        ELSE IF ~(c.window.End > c.window.Start)
          THEN UtilReturn(w, c)
        ELSE /\ pc' = [pc EXCEPT ![w] = IF rule.Freq = FreqWeekly /\ Len(rule.Weekdays) > 0
                                          THEN "expand_weekly" ELSE "expand_daily"]
             /\ call' = [call EXCEPT ![w] = [c EXCEPT !.rule = rule, !.cur = rule.StartTime]]
             /\ UNCHANGED <<slots, bookings, slotLock, bookingLock, response, commits,
                            scope, roles, userRoles>>

\* The loop never finds itself past the window.
PastWindowNever(occStart, occEnd, window) == FALSE

\* occEnd.After(window.End) && occStart.After(window.End)
PastWindow(occStart, occEnd, window) == occEnd > window.End /\ occStart > window.End

\* One iteration of the daily loop: done when the loop is left.
DailyIteration(rule, window, cur, acc) ==
  IF rule.Until # Nil /\ cur > rule.Until[1] THEN [done |-> TRUE, cur |-> cur, acc |-> acc]
  ELSE IF CountReached(rule, acc) THEN [done |-> TRUE, cur |-> cur, acc |-> acc]
  ELSE
    LET occStart == cur
        occEnd == cur + rule.Duration
        next == nextOccurrence(rule, cur)
    IN IF /\ rule.Freq = FreqWeekly /\ Len(rule.Weekdays) > 0
          /\ ~containsWeekday(rule.Weekdays, Weekday(occStart))
         THEN [done |-> FALSE, cur |-> next, acc |-> acc]
       ELSE IF isException(rule, occStart)
         THEN [done |-> FALSE, cur |-> next, acc |-> acc]
       ELSE IF rangesOverlap(TimeRange(occStart, occEnd), window, FALSE)
         THEN [done |-> FALSE, cur |-> next,
               acc |-> Generated(acc, TimeRange(occStart, occEnd))]
       ELSE IF PastWindow(occStart, occEnd, window)
         THEN [done |-> TRUE, cur |-> cur, acc |-> acc]
       ELSE [done |-> FALSE, cur |-> next, acc |-> acc]

\* One iteration of the loop over the weeks, the loop over the weekdays of
\* the week included.
WeekIteration(rule, window, weekdays, weekCursor, acc) ==
  IF CountReached(rule, acc) THEN [done |-> TRUE, cur |-> weekCursor, acc |-> acc]
  ELSE
    LET weekStart == weekStartMonday(weekCursor)
        week == ExpandWeekdays(rule, window, weekdays, weekStart, 1, acc)
        nextCursor == AddDate(weekCursor, 7 * rule.Interval)
    IN IF weekStart > window.End THEN [done |-> TRUE, cur |-> weekCursor, acc |-> acc]
       ELSE IF week.returned THEN [done |-> TRUE, cur |-> weekCursor, acc |-> week]
       ELSE IF rule.Until # Nil /\ nextCursor > rule.Until[1]
         THEN [done |-> TRUE, cur |-> nextCursor, acc |-> week]
       ELSE [done |-> FALSE, cur |-> nextCursor, acc |-> week]

\* The loop goes on with the next cursor, or the function returns.
ExpandStep(w, step) ==
  LET c == call[w]
  IN IF step.done
       THEN UtilReturn(w, [c EXCEPT !.cur = step.cur, !.acc = step.acc,
                                    !.result = step.acc.result])
       ELSE /\ call' = [call EXCEPT ![w] = [c EXCEPT !.cur = step.cur, !.acc = step.acc,
                                                     !.iterations = @ + 1]]
            /\ UNCHANGED <<slots, bookings, slotLock, bookingLock, pc, response, commits,
                           scope, roles, userRoles>>

ExpandDailyIteration(w) ==
  /\ pc[w] = "expand_daily"
  /\ DayOf(call[w].cur) <= MaxCursorDay
  /\ ExpandStep(w, DailyIteration(call[w].rule, call[w].window, call[w].cur, call[w].acc))

ExpandWeekIteration(w) ==
  /\ pc[w] = "expand_weekly"
  /\ DayOf(call[w].cur) <= MaxCursorDay
  /\ ExpandStep(w, WeekIteration(call[w].rule, call[w].window,
                                 uniqueSortedWeekdays(call[w].rule.Weekdays),
                                 call[w].cur, call[w].acc))

\* ================================================================ properties

ActiveBookingsOf(slotID) ==
  {b \in BookingIds : bookings[b].slot = slotID /\ bookings[b].status # BookingStatusCancelled}

\* C1: two CreateBooking calls that race for one planned slot (both began on
\* the same committed rows, which let each of them pass, and no other
\* transaction committed meanwhile): exactly one returns OK, the other returns
\* FailedPrecondition "slot is not free" after it read the slot as booked, and
\* the slot is booked when the second of them returns.
C1_Oks(w) ==
  (IF call[w].rival = "OK" THEN 1 ELSE 0) + (IF response'.code = "OK" THEN 1 ELSE 0)

C1_SecondReturns(w) ==
  /\ pc[w] # "idle" /\ pc'[w] = "idle"
  /\ call[w].op = "CreateBooking"
  /\ call[w].rival # ""
  /\ commits' - call[w].c0 = C1_Oks(w)

C1_ExactlyOneBooks ==
  [][\A w \in Workers : C1_SecondReturns(w) =>
       /\ C1_Oks(w) = 1
       /\ call[w].rival # "OK" => call[w].rival = "FailedPrecondition"
       /\ response'.code # "OK" =>
            /\ response'.code = "FailedPrecondition"
            /\ response'.msg = "slot is not free"
            /\ response'.row.status = TimeSlotStatusBooked
       /\ slots'[call[w].slot].status = TimeSlotStatusBooked
       /\ Cardinality({b \in DOMAIN bookings' :
             /\ bookings'[b].slot = call[w].slot
             /\ bookings'[b].status = BookingStatusConfirmed}) = 1]_vars

\* C2: in every committed state each slot has at most one booking that is not
\* cancelled.
C2_AtMostOneActiveBooking ==
  \A s \in SlotIds : Cardinality(ActiveBookingsOf(s)) <= 1

\* A CreateBooking on a slot that holds an active booking has been refused
\* while another slot was cancelled in bulk with its booking.
C2_Witness ==
  /\ response.op = "CreateBooking"
  /\ response.code = "FailedPrecondition"
  /\ response.slot \in SlotIds
  /\ Cardinality(ActiveBookingsOf(response.slot)) = 1
  /\ \E b \in BookingIds : /\ bookings[b].status = BookingStatusCancelled
                           /\ slots[bookings[b].slot].status = TimeSlotStatusCancelled

\* C3: in every committed state the slot of every confirmed booking is booked.
C3_ConfirmedMeansBooked ==
  \A b \in BookingIds :
    bookings[b].status = BookingStatusConfirmed =>
      slots[bookings[b].slot].status = TimeSlotStatusBooked

\* C4: CreateBooking, CancelBooking of that booking, CreateBooking again on the
\* same slot: the second CreateBooking (it began on rows that let it pass, with
\* the slot's earlier booking cancelled) returns OK, its booking is a new
\* confirmed record beside the cancelled one, and the slot is booked.
C4_CancelThenRebook ==
  ( /\ response.op = "CreateBooking"
    /\ Pre(response)
    /\ response.seen.earlier # {}
    /\ \A b \in response.seen.earlier : bookings[b].status = BookingStatusCancelled )
  => /\ response.code = "OK"
     /\ response.booking \in BookingIds \ response.seen.earlier
     /\ bookings[response.booking].status = BookingStatusConfirmed
     /\ bookings[response.booking].slot = response.slot
     /\ slots[response.slot].status = TimeSlotStatusBooked

\* C5: a CreateBooking on a planned slot by a client who holds a confirmed
\* booking on another slot whose range overlaps it (half-open) returns
\* FailedPrecondition, adds no booking and leaves the slot planned; when no
\* such booking overlaps (the ranges at most touch) the call is not refused
\* for a client conflict.
C5_ClientOverlapRejected ==
  ( /\ response.op = "CreateBooking"
    /\ response.client \in Clients
    /\ response.seen.status = TimeSlotStatusPlanned )
  => /\ response.seen.clientClash =>
          /\ response.code = "FailedPrecondition"
          /\ response.booking = 0
          /\ Len(bookings) = response.seen.nBookings
          /\ slots[response.slot].status = TimeSlotStatusPlanned
     /\ ~response.seen.clientClash =>
          response.msg # "client has conflicting booking"

\* A client who holds confirmed bookings on two slots that touch each other has
\* been refused a third slot that overlaps them.
C5_Witness ==
  /\ response.op = "CreateBooking"
  /\ response.seen.status = TimeSlotStatusPlanned
  /\ response.seen.clientClash
  /\ response.code = "FailedPrecondition"
  /\ \E a, b \in BookingIds :
       /\ a # b
       /\ bookings[a].client = response.client /\ bookings[b].client = response.client
       /\ bookings[a].status = BookingStatusConfirmed
       /\ bookings[b].status = BookingStatusConfirmed
       /\ SlotsTouch(bookings[a].slot, bookings[b].slot)

\* C6: in every committed state no client holds two confirmed bookings whose
\* slot ranges overlap.
C6_NoClientOverlap ==
  \A a, b \in BookingIds :
    ( /\ a # b
      /\ bookings[a].client = bookings[b].client
      /\ bookings[a].status = BookingStatusConfirmed
      /\ bookings[b].status = BookingStatusConfirmed
      /\ bookings[a].slot # bookings[b].slot )
    => ~SlotsOverlap(bookings[a].slot, bookings[b].slot)

\* C7: in every committed state no provider has two confirmed bookings, made
\* by different clients, whose slot ranges overlap.
C7_NoProviderOverlap ==
  \A a, b \in BookingIds :
    ( /\ a # b
      /\ bookings[a].client # bookings[b].client
      /\ slots[bookings[a].slot].provider = slots[bookings[b].slot].provider
      /\ bookings[a].status = BookingStatusConfirmed
      /\ bookings[b].status = BookingStatusConfirmed
      /\ bookings[a].slot # bookings[b].slot )
    => ~SlotsOverlap(bookings[a].slot, bookings[b].slot)


\* C8: a ListFreeSlots request that repeats the request answered just before
\* it (same provider, service and window, nothing else running, the schedules
\* unchanged) inserts no slot row: none of its steps changes the time_slots
\* table.
C8_SecondCallInsertsNothing ==
  [][\A w \in Workers :
       (/\ call[w].op = "ListFreeSlots" /\ call[w].repeat
        /\ pc[w] # "idle" /\ pc'[w] # pc[w])
       => slots' = slots]_vars

\* C9: no two rows of time_slots have the same provider, service, start and
\* end, whatever ListFreeSlots requests have run concurrently.
C9_NoDuplicateSlots ==
  \A s, t \in SlotIds :
    ( /\ slots[s].provider = slots[t].provider
      /\ slots[s].service = slots[t].service
      /\ slots[s].starts = slots[t].starts
      /\ slots[s].ends = slots[t].ends ) => s = t

\* C10: a BulkCancelProviderSlots(provider, window, reason) that runs alone
\* sets to cancelled exactly the provider's slots that are not cancelled and
\* lie inside the window, and exactly the bookings on them that are not
\* cancelled (with cancelledAt set); every other slot and booking keeps its
\* status; the counts are the numbers of rows changed, and affectedBookings
\* has one entry per cancelled booking with the ids and the time range read
\* before the updates.
C10_Slots(c) ==
  {s \in SlotIds : /\ slots[s].provider = c.provider
                   /\ slots[s].status # TimeSlotStatusCancelled
                   /\ slots[s].starts >= c.window[1]
                   /\ slots[s].ends <= c.window[2]}

C10_Bookings(c) ==
  {b \in BookingIds : /\ bookings[b].slot \in C10_Slots(c)
                      /\ bookings[b].status # BookingStatusCancelled}

C10_AloneCommits(w) ==
  /\ call[w].op = "BulkCancelProviderSlots"
  /\ pc[w] # "idle" /\ pc'[w] = "idle"
  /\ commits = call[w].c0

C10_BulkCancelExact ==
  [][\A w \in Workers : C10_AloneCommits(w) =>
       LET c == call[w] IN
       /\ DOMAIN slots' = DOMAIN slots /\ DOMAIN bookings' = DOMAIN bookings
       /\ \A s \in SlotIds :
            IF s \in C10_Slots(c)
              THEN slots'[s] = [slots[s] EXCEPT !.status = TimeSlotStatusCancelled]
              ELSE slots'[s] = slots[s]
       /\ \A b \in BookingIds :
            IF b \in C10_Bookings(c)
              THEN /\ bookings'[b].status = BookingStatusCancelled
                   /\ bookings'[b].cancelledAt = <<call[w].now>>
                   /\ bookings'[b].slot = bookings[b].slot
                   /\ bookings'[b].client = bookings[b].client
              ELSE bookings'[b] = bookings[b]
       /\ response'.code = "OK"
       /\ response'.nSlots = Cardinality(C10_Slots(c))
       /\ response'.nBookings = Cardinality(C10_Bookings(c))
       /\ Cardinality(response'.rows) = Cardinality(C10_Bookings(c))
       /\ \A b \in C10_Bookings(c) : \E r \in response'.rows :
            /\ r.bookingId = b
            /\ r.slotId = bookings[b].slot
            /\ r.clientId = bookings[b].client
            /\ r.providerId = c.provider
            /\ r.serviceId = (IF slots[bookings[b].slot].service = NULL THEN ""
                              ELSE slots[bookings[b].slot].service)
            /\ r.startsAt = slots[bookings[b].slot].starts
            /\ r.endsAt = slots[bookings[b].slot].ends]_vars

\* A bulk cancellation has cancelled a booked slot with its booking and a
\* planned slot, while a slot of the same provider that sticks out of the
\* window and a slot of another provider keep their confirmed bookings.
C10_Witness ==
  /\ response.op = "BulkCancelProviderSlots"
  /\ response.code = "OK"
  /\ response.nBookings >= 1
  /\ response.nSlots >= 1
  /\ \E s \in SlotIds :
       /\ slots[s].provider = response.provider
       /\ ~(slots[s].starts >= response.window[1] /\ slots[s].ends <= response.window[2])
       /\ slots[s].status = TimeSlotStatusPlanned
  /\ \E b \in BookingIds :
       /\ slots[bookings[b].slot].provider # response.provider
       /\ bookings[b].status = BookingStatusConfirmed


\* C11: a slot's status changes only from planned to booked, from booked to
\* planned, and from planned or booked to cancelled, under every interleaving
\* of CreateBooking, CancelBooking and BulkCancelProviderSlots; a cancelled
\* slot stays cancelled.
C11_SlotTransitions ==
  [][\A s \in SlotIds :
       slots'[s].status # slots[s].status =>
         \/ /\ slots[s].status = TimeSlotStatusPlanned
            /\ slots'[s].status \in {TimeSlotStatusBooked, TimeSlotStatusCancelled}
         \/ /\ slots[s].status = TimeSlotStatusBooked
            /\ slots'[s].status \in {TimeSlotStatusPlanned, TimeSlotStatusCancelled}]_vars


\* C12: the transaction of a CancelBooking on a booking that is not cancelled
\* writes nothing before its commit, and its commit sets that booking to
\* cancelled with cancelledAt set and the booking's slot to planned; no other
\* booking and no other slot changes.
C12_CancelBookingEffect ==
  [][\A w \in Workers :
       /\ (pc[w] = "ca_update_booking" /\ pc'[w] # pc[w])
            => (slots' = slots /\ bookings' = bookings)
       /\ ( /\ pc[w] = "ca_update_slot" /\ pc'[w] = "idle"
            /\ bookings[call[w].booking].status # BookingStatusCancelled )
            => LET b == call[w].booking
                   s == bookings[b].slot
               IN /\ DOMAIN bookings' = DOMAIN bookings /\ DOMAIN slots' = DOMAIN slots
                  /\ bookings'[b].status = BookingStatusCancelled
                  /\ bookings'[b].cancelledAt # << >>
                  /\ bookings'[b].slot = s
                  /\ bookings'[b].client = bookings[b].client
                  /\ bookings'[b].comment = bookings[b].comment
                  /\ \A o \in BookingIds \ {b} : bookings'[o] = bookings[o]
                  /\ slots'[s] = [slots[s] EXCEPT !.status = TimeSlotStatusPlanned]
                  /\ \A o \in SlotIds \ {s} : slots'[o] = slots[o]
                  /\ response'.code = "OK"
                  /\ response'.out = bookings'[b]]_vars

\* A CancelBooking has cancelled one of a client's two confirmed bookings: its
\* slot is planned again, the other booking is still confirmed on a booked slot.
C12_Witness ==
  /\ response.op = "CancelBooking"
  /\ response.code = "OK"
  /\ response.now # 0
  /\ bookings[response.booking].status = BookingStatusCancelled
  /\ bookings[response.booking].cancelledAt # << >>
  /\ slots[response.slot].status = TimeSlotStatusPlanned
  /\ \E o \in BookingIds :
       /\ o # response.booking
       /\ bookings[o].status = BookingStatusConfirmed
       /\ slots[bookings[o].slot].status = TimeSlotStatusBooked


\* C13: a CancelBooking that finds its booking already cancelled begins no
\* transaction: it returns OK with the booking as it is, and no booking and
\* no slot changes, whatever the status of the booking's slot.
C13_CancelIdempotent ==
  [][/\ \A w \in Workers :
          (pc[w] = "idle" /\ pc'[w] = "ca_update_booking")
            => bookings[call'[w].booking].status # BookingStatusCancelled
     /\ ( /\ response' # response
          /\ response'.op = "CancelBooking"
          /\ response'.booking \in BookingIds
          /\ bookings[response'.booking].status = BookingStatusCancelled
          /\ \A w \in Workers : pc[w] = "ca_update_slot" => pc'[w] = pc[w] )
          => /\ slots' = slots /\ bookings' = bookings
             /\ response'.code = "OK"
             /\ response'.out = bookings[response'.booking]]_vars

\* A CancelBooking has returned a booking that a bulk cancellation had
\* cancelled before: the booking keeps the cancelledAt of the bulk
\* cancellation and its slot is still cancelled.
C13_Witness ==
  /\ response.op = "CancelBooking"
  /\ response.code = "OK"
  /\ response.now = 0
  /\ response.out.status = BookingStatusCancelled
  /\ bookings[response.booking] = response.out
  /\ bookings[response.booking].comment = "sick"
  /\ slots[response.slot].status = TimeSlotStatusCancelled


\* C14: a CreateBooking returns NotFound when its client has no row or its
\* slot has no row, and FailedPrecondition "slot is not free" when the slot is
\* not planned; a CreateBooking that returns an error leaves every booking and
\* every slot as it was and creates no booking.
C14_CreateBookingErrors ==
  [][( response' # response /\ response'.op = "CreateBooking" ) =>
       LET r == response'
       IN /\ r.client \notin Clients => r.code = "NotFound"
          /\ (r.client \in Clients /\ r.slot \notin SlotIds) => r.code = "NotFound"
          /\ ( /\ r.client \in Clients /\ r.slot \in SlotIds
               /\ slots[r.slot].status # TimeSlotStatusPlanned )
               => (r.code = "FailedPrecondition" /\ r.msg = "slot is not free")
          /\ r.code # "OK" => (slots' = slots /\ bookings' = bookings /\ r.booking = 0)]_vars

\* A CreateBooking on a booked slot has been refused: the slot keeps its one
\* confirmed booking and no booking was added.
C14_Witness ==
  /\ response.op = "CreateBooking"
  /\ response.code = "FailedPrecondition"
  /\ response.msg = "slot is not free"
  /\ response.seen.status = TimeSlotStatusBooked
  /\ slots[response.slot].status = TimeSlotStatusBooked
  /\ Len(bookings) = response.seen.nBookings
  /\ Cardinality(ActiveBookingsOf(response.slot)) = 1


\* C15: no step of a CheckAvailability changes a slot or a booking; for a
\* client that exists it answers, without an error, available = false with
\* reason "slot not found" when the slot has no row and "slot is not free"
\* when the slot is not planned, where a CreateBooking returns NotFound and
\* FailedPrecondition.
C15_CheckAvailabilityReadOnly ==
  [][LET r == response'
         missing == r.client \in Clients /\ r.slot \notin SlotIds
         taken == /\ r.client \in Clients /\ r.slot \in SlotIds
                  /\ slots[r.slot].status # TimeSlotStatusPlanned
     IN /\ ( \/ response' # response /\ r.op = "CheckAvailability"
             \/ \E w \in Workers : /\ call'[w].op = "CheckAvailability"
                                   /\ (call'[w] # call[w] \/ pc'[w] # pc[w]) )
             => (slots' = slots /\ bookings' = bookings)
        /\ ( response' # response /\ r.op = "CheckAvailability" ) =>
             /\ missing => (r.code = "OK" /\ ~r.available /\ r.reason = "slot not found")
             /\ taken => (r.code = "OK" /\ ~r.available /\ r.reason = "slot is not free")
        /\ ( response' # response /\ r.op = "CreateBooking" ) =>
             /\ missing => r.code = "NotFound"
             /\ taken => r.code = "FailedPrecondition"]_vars

\* A CheckAvailability on a booked slot has answered, without an error, that
\* the slot is not free; the slot is still booked by its confirmed booking.
C15_Witness ==
  /\ response.op = "CheckAvailability"
  /\ response.code = "OK"
  /\ ~response.available
  /\ response.reason = "slot is not free"
  /\ slots[response.slot].status = TimeSlotStatusBooked
  /\ Cardinality(ActiveBookingsOf(response.slot)) = 1


\* The occurrences of a rule that steps a cursor (a daily rule, a weekly rule
\* without weekdays) from its start, by their number from 0.
StepOf(rule) ==
  (IF rule.Freq = FreqWeekly THEN 7 ELSE 1) * (IF rule.Interval <= 0 THEN 1 ELSE rule.Interval)

OccurrenceOf(rule, k) ==
  TimeRange(rule.StartTime + k * StepOf(rule) * DayLen,
            rule.StartTime + k * StepOf(rule) * DayLen + rule.Duration)

\* The numbers, in ascending order, of the occurrences that overlap the window
\* (half-open), start at or before until and fall on no excepted date.
RECURSIVE KeptFrom(_, _, _)
KeptFrom(rule, window, k) ==
  LET occ == OccurrenceOf(rule, k)
  IN IF occ.Start >= window.End THEN << >>
     ELSE IF rule.Until # Nil /\ occ.Start > rule.Until[1] THEN << >>
     ELSE IF /\ occ.Start < window.End /\ window.Start < occ.End
             /\ DayOf(occ.Start) \notin rule.Exceptions
       THEN <<occ>> \o KeptFrom(rule, window, k + 1)
     ELSE KeptFrom(rule, window, k + 1)

FirstN(seq, n) == IF Len(seq) <= n THEN seq ELSE SubSeq(seq, 1, n)

\* The call returned without an error for a rule and a window that are valid.
Expanded(r) ==
  /\ r.op = "ExpandRecurringRule"
  /\ r.err = ""
  /\ r.rule.Duration > 0
  /\ r.rule.StartTime # ZeroTime
  /\ r.window.End > r.window.Start

\* C16: for a daily rule with interval i >= 1 and count N, without until and
\* exceptions, ExpandRecurringRule returns the first N occurrences
\* startTime + k * i days that overlap the window, in order: all of the first
\* N occurrences when the window contains them, and never more than N.
C16_DailyCount ==
  ( /\ Expanded(response)
    /\ response.rule.Freq = FreqDaily /\ response.rule.Interval >= 1
    /\ response.rule.Count # Nil
    /\ response.rule.Until = Nil /\ response.rule.Exceptions = {} )
  => LET rule == response.rule
         N == rule.Count[1]
         inside == \A k \in 0..(N - 1) :
                      /\ OccurrenceOf(rule, k).Start >= response.window.Start
                      /\ OccurrenceOf(rule, k).End <= response.window.End
     IN /\ Len(response.result) <= N
        /\ response.result = FirstN(KeptFrom(rule, response.window, 0), N)
        /\ inside => response.result = [k \in 1..N |-> OccurrenceOf(rule, k - 1)]

\* A daily rule that steps two days, with count 3, was expanded in a window
\* that contains its first three occurrences: they are returned.
C16_Witness ==
  /\ Expanded(response)
  /\ response.rule.Freq = FreqDaily /\ response.rule.Interval = 2
  /\ response.rule.Count = Some(3)
  /\ response.rule.Until = Nil /\ response.rule.Exceptions = {}
  /\ Len(response.result) = 3
  /\ response.result[3].End <= response.window.End
  /\ response.result[1].Start >= response.window.Start


C18_OrderedDisjoint ==
  Expanded(response)
  => LET res == response.result
     IN /\ \A i \in DOMAIN res : res[i].End - res[i].Start = response.rule.Duration
        /\ \A i, j \in DOMAIN res : i < j =>
             /\ res[i].Start < res[j].Start
             /\ ~rangesOverlap(res[i], res[j], FALSE)

\* C18, ordering alone: for rules whose occurrences are not longer than a
\* day the returned starts are ascending.
C18_OrderedShort ==
  (Expanded(response) /\ response.rule.Duration <= DayLen)
  => \A i, j \in DOMAIN response.result : i < j =>
       response.result[i].Start < response.result[j].Start


\* C19: NormalizeTimeRange with two non-zero bounds returns the smaller bound
\* as start and the larger as end, the end cut to start + maxDuration when
\* maxDuration > 0 and the span is longer, so that the returned duration never
\* exceeds a positive maxDuration; it fails with the invalid-range error
\* exactly when a bound is zero or the two bounds are equal.
Min2(a, b) == IF a < b THEN a ELSE b
Max2(a, b) == IF a < b THEN b ELSE a

Normalized(r) == r.op = "NormalizeTimeRange"

C19_NormalizeTimeRange ==
  Normalized(response)
  => LET r == response
         lo == Min2(r.start, r.end)
         hi == Max2(r.start, r.end)
     IN IF r.start = ZeroTime \/ r.end = ZeroTime \/ r.start = r.end
          THEN r.err = ErrInvalidTimeRange
          ELSE /\ r.err = ""
               /\ r.result.Start = lo
               /\ r.result.End =
                    IF r.maxDuration > 0 /\ hi - lo > r.maxDuration
                      THEN lo + r.maxDuration
                      ELSE hi
               /\ r.maxDuration > 0
                    => r.result.End - r.result.Start <= r.maxDuration

\* Swapped bounds further apart than a positive maxDuration were normalized.
C19_Witness ==
  /\ Normalized(response)
  /\ response.err = ""
  /\ response.start > response.end
  /\ response.maxDuration > 0
  /\ response.start - response.end > response.maxDuration
  /\ response.result.End - response.result.Start = response.maxDuration

\* C20: SplitToTimeSlots with a positive slot duration d and no alignment
\* returns floor((end - start) / d) slots, the k-th being
\* [start + k*d, start + (k+1)*d): contiguous, of width d, all inside the
\* range, the trailing part shorter than d dropped (none for a range that is
\* empty or reversed); with d <= 0 it fails with the slot-duration error.
Split(r) == r.op = "SplitToTimeSlots"

C20_SplitToTimeSlots ==
  (Split(response) /\ response.alignMinutes <= 0)
  => LET r == response
         d == r.slotDuration
         n == IF r.tr.End > r.tr.Start THEN (r.tr.End - r.tr.Start) \div d ELSE 0
     IN IF d <= 0
          THEN r.err = ErrSlotDuration
          ELSE /\ r.err = ""
               /\ Len(r.result) = n
               /\ \A k \in 1..n :
                    /\ r.result[k] = TimeRange(r.tr.Start + (k - 1) * d, r.tr.Start + k * d)
                    /\ r.result[k].End <= r.tr.End

\* Several slots were returned and a shorter trailing part was dropped.
C20_Witness ==
  /\ Split(response)
  /\ response.alignMinutes <= 0
  /\ response.err = ""
  /\ Len(response.result) >= 2
  /\ response.result[Len(response.result)].End < response.tr.End


\* C21: rangesOverlap is symmetric: for all ranges a and b and both values of
\* inclusive, rangesOverlap(a, b, inclusive) = rangesOverlap(b, a, inclusive).
C21_OverlapSymmetric ==
  response.op = "rangesOverlap" => response.ab = response.ba

\* Two different ranges that overlap were compared in both orders.
C21_Witness ==
  /\ response.op = "rangesOverlap"
  /\ response.a.Start < response.b.Start
  /\ response.a.End < response.b.End
  /\ response.ab
  /\ response.ba


\* C28: HasOverlap(candidate, existing, inclusive) returns true iff some range
\* of existing overlaps the candidate, together with exactly the ranges of
\* existing that overlap it, in input order. Two ranges overlap when they
\* share an instant: as half-open intervals [Start, End) with
\* inclusive = false, so that ranges which only touch do not overlap, and as
\* closed intervals [Start, End] with inclusive = true, so that they do.
SharesInstant(a, b, inclusive) ==
  \E t \in 0..MaxBound :
    /\ a.Start <= t /\ b.Start <= t
    /\ IF inclusive THEN t <= a.End /\ t <= b.End ELSE t < a.End /\ t < b.End

C28_HasOverlap ==
  response.op = "HasOverlap"
  => LET r == response
         expected == SelectSeq(r.existing,
                               LAMBDA tr : SharesInstant(r.newRange, tr, r.inclusive))
     IN /\ r.conflicts = expected
        /\ r.has = (\E i \in DOMAIN r.existing :
                      SharesInstant(r.newRange, r.existing[i], r.inclusive))

\* Two of three existing ranges conflict with the candidate, the other only
\* touches it and the comparison is not inclusive.
C28_Witness ==
  /\ response.op = "HasOverlap"
  /\ ~response.inclusive
  /\ Len(response.existing) = 3
  /\ Len(response.conflicts) = 2
  /\ response.has
  /\ \E i \in DOMAIN response.existing :
       response.existing[i].Start = response.newRange.End


\* C26: ExpandRecurringRule fails with an error when the duration is not
\* positive or the start time is zero; otherwise it succeeds, with an empty
\* result for a window whose end is not after its start, and with the result
\* of the same rule with interval 1 when the interval is not positive.
C26_ExpandErrors ==
  response.op = "ExpandRecurringRule"
  => LET r == response
     IN IF r.rule.Duration <= 0 \/ r.rule.StartTime = ZeroTime
          THEN r.err # "" /\ r.result = << >>
          ELSE /\ r.err = ""
               /\ ~(r.window.End > r.window.Start) => r.result = << >>
               /\ r.rule.Interval <= 0
                    => r.result =
                         ExpandRecurringRule([r.rule EXCEPT !.Interval = 1], r.window).result

\* A rule with interval 0 was expanded to several occurrences.
C26_Witness ==
  /\ Expanded(response)
  /\ response.rule.Interval = 0
  /\ Len(response.result) >= 2


\* C27: with alignMinutes > 0 the first slot SplitToTimeSlots returns starts
\* at the earliest time at or after range.start whose minute within the hour
\* is a multiple of alignMinutes, whatever alignMinutes is and whether or not
\* range.start has seconds; the result is empty when that time is not before
\* range.end.
AlignedFrom(start, alignMinutes) ==
  CHOOSE t \in start..(start + 2 * HourLen) :
    /\ MinuteOf(t) % alignMinutes = 0
    /\ \A u \in start..(t - 1) : MinuteOf(u) % alignMinutes # 0

SplitAligned(r) ==
  /\ r.op = "SplitToTimeSlots"
  /\ r.alignMinutes > 0
  /\ r.slotDuration > 0
  /\ r.tr.End > r.tr.Start

C27_AlignedStart ==
  SplitAligned(response)
  => LET r == response
         first == AlignedFrom(r.tr.Start, r.alignMinutes)
     IN /\ r.err = ""
        /\ Len(r.result) > 0 => r.result[1].Start = first
        /\ ~(first < r.tr.End) => r.result = << >>
        /\ first + r.slotDuration <= r.tr.End => Len(r.result) > 0

\* The same for the values of alignMinutes that divide the hour.
C27_AlignedStartDivisor ==
  (SplitAligned(response) /\ MinutesPerHour % response.alignMinutes = 0)
  => LET r == response
         first == AlignedFrom(r.tr.Start, r.alignMinutes)
     IN /\ Len(r.result) > 0 => r.result[1].Start = first
        /\ ~(first < r.tr.End) => r.result = << >>
        /\ first + r.slotDuration <= r.tr.End => Len(r.result) > 0


\* Reference for weekly rules with a weekday set. Day 0 is a Monday, so the
\* week of day d begins on day d - d % 7 and weekday wd (Sunday = 0) is day
\* (wd + 6) % 7 of its week. MaxWeeks weeks reach past every window.
MaxWeeks == 2

WeeklyOccurrence(rule, k, wd) ==
  LET monday == DayOf(rule.StartTime) - (DayOf(rule.StartTime) % 7)
      day == monday + (7 * StepOf([rule EXCEPT !.Freq = FreqDaily]) * k) + ((wd + 6) % 7)
      start == (day * DayLen) + (rule.StartTime % DayLen)
  IN TimeRange(start, start + rule.Duration)

\* Every occurrence of the rule: none before startTime, one per listed day.
AllOccurrences(rule) ==
  IF rule.Freq = FreqWeekly /\ Len(rule.Weekdays) > 0
    THEN {occ \in {WeeklyOccurrence(rule, k, rule.Weekdays[i]) :
                     k \in 0..MaxWeeks, i \in DOMAIN rule.Weekdays} :
            occ.Start >= rule.StartTime}
    ELSE {OccurrenceOf(rule, k) : k \in 0..(7 * (MaxWeeks + 1))}

\* The occurrences a full scan keeps: those that overlap the window as
\* half-open intervals, start at or before until and are not excepted.
KeptOccurrences(rule, window) ==
  {occ \in AllOccurrences(rule) :
     /\ occ.Start < window.End /\ window.Start < occ.End
     /\ rule.Until # Nil => occ.Start <= rule.Until[1]
     /\ DayOf(occ.Start) \notin rule.Exceptions}

RECURSIVE SortByStart(_)
SortByStart(S) ==
  IF S = {} THEN << >>
  ELSE LET m == CHOOSE x \in S : \A y \in S : x.Start <= y.Start
       IN <<m>> \o SortByStart(S \ {m})

ResultSet(r) == {r.result[i] : i \in DOMAIN r.result}

WeeklyWithDays(r) == r.rule.Freq = FreqWeekly /\ Len(r.rule.Weekdays) > 0

\* C23: the result of ExpandRecurringRule equals the result of a scan of
\* every occurrence that keeps those overlapping the window (half-open): the
\* early termination drops none of them. Stated here for rules without
\* until: with a count the first count of the kept occurrences of a rule that
\* steps a cursor, without a count all kept occurrences of any rule.
C23_WindowFilter ==
  (Expanded(response) /\ response.rule.Until = Nil)
  => LET r == response
         kept == KeptOccurrences(r.rule, r.window)
     IN /\ r.rule.Count = Nil => ResultSet(r) = kept
        /\ ~WeeklyWithDays(r)
             => r.result = IF r.rule.Count = Nil THEN SortByStart(kept)
                           ELSE FirstN(SortByStart(kept), r.rule.Count[1])

\* C23 for rules that step a cursor and weekly rules whose weekday set has no
\* Sunday.
C23_WindowFilterNoSunday ==
  (Expanded(response) /\ response.rule.Until = Nil
     /\ ~containsWeekday(response.rule.Weekdays, Sunday))
  => LET r == response
         kept == KeptOccurrences(r.rule, r.window)
     IN r.result = IF r.rule.Count = Nil THEN SortByStart(kept)
                   ELSE FirstN(SortByStart(kept), r.rule.Count[1])

\* C24: ExpandRecurringRule returns no occurrence that starts after until and
\* omits no occurrence that starts at or before until, overlaps the window
\* and is not excepted; stated for rules without a count and with until
\* before the end of the window.
C24_UntilByStart ==
  (Expanded(response) /\ response.rule.Until # Nil /\ response.rule.Count = Nil
     /\ response.rule.Until[1] < response.window.End)
  => /\ \A i \in DOMAIN response.result :
          response.result[i].Start <= response.rule.Until[1]
     /\ KeptOccurrences(response.rule, response.window) \subseteq ResultSet(response)

\* C24 for weekly rules whose weekday set has no Sunday.
C24_UntilNoSunday ==
  (Expanded(response) /\ response.rule.Until # Nil /\ response.rule.Count = Nil
     /\ response.rule.Until[1] < response.window.End
     /\ ~containsWeekday(response.rule.Weekdays, Sunday))
  => KeptOccurrences(response.rule, response.window) \subseteq ResultSet(response)

\* C24 for the rules that step a cursor (daily, weekly without weekdays).
C24_UntilCursor ==
  (Expanded(response) /\ response.rule.Until # Nil /\ response.rule.Count = Nil
     /\ ~WeeklyWithDays(response))
  => /\ \A i \in DOMAIN response.result :
          response.result[i].Start <= response.rule.Until[1]
     /\ ResultSet(response) = KeptOccurrences(response.rule, response.window)

\* C25: for a weekly rule with a weekday set (no until, count or exceptions)
\* ExpandRecurringRule returns, for the weeks at 0, interval, 2 * interval, ...
\* from the week of startTime, one occurrence per listed weekday at the time
\* of day of startTime, none before startTime and one for a weekday listed
\* twice, in the order of the days of the Monday-anchored week.
C25_WeeklyPattern ==
  (Expanded(response) /\ WeeklyWithDays(response) /\ response.rule.Until = Nil
     /\ response.rule.Count = Nil /\ response.rule.Exceptions = {})
  => response.result = SortByStart(KeptOccurrences(response.rule, response.window))

\* C25 for weekday sets without a Sunday.
C25_WeeklyPatternNoSunday ==
  (Expanded(response) /\ WeeklyWithDays(response) /\ response.rule.Until = Nil
     /\ response.rule.Count = Nil /\ response.rule.Exceptions = {}
     /\ ~containsWeekday(response.rule.Weekdays, Sunday))
  => response.result = SortByStart(KeptOccurrences(response.rule, response.window))


\* C22: one role per user. When a SetRole call for a user returns without an
\* error and no call is in progress any more, the user has exactly one
\* user_roles row, also when SetRole calls for the same user ran concurrently.
C22_OneRolePerUser ==
  [][ ( /\ \A w \in Workers : pc'[w] = "idle"
        /\ response'.op = "SetRole"
        /\ response'.err = ""
        /\ commits' # commits )
      => Cardinality({ur \in userRoles' : ur[2] = response'.user}) = 1 ]_vars


\* CreateBooking(client, slot) run alone on the committed rows passes every
\* check of the handler and its INSERT is accepted.
CreateBookingSucceeds(clientID, slotID) ==
  /\ clientID \in Clients
  /\ slotID \in SlotIds
  /\ SlotIsFree(slots[slotID])
  /\ LET newRange == TimeRange(slots[slotID].starts, slots[slotID].ends)
     IN /\ ~HasOverlap(newRange, listClientConfirmedBookingRangesTx(clientID, slotID), FALSE).has
        /\ ~HasOverlap(newRange,
                       listProviderConfirmedBookingRangesTx(slots[slotID].provider, slotID),
                       FALSE).has
  /\ UniqueSlotIdFree(slotID)

\* With no concurrent writer a CreateBooking returns OK exactly when
\* CreateBookingSucceeds held on the rows it ran on.
C29_CreateBookingOutcome ==
  [][ \A w \in Workers :
        (call[w].op = "CreateBooking" /\ pc'[w] = "idle" /\ pc[w] # "idle")
        => (response'.code = "OK") = CreateBookingSucceeds(call[w].client, call[w].slot) ]_vars

\* C29: with no concurrent writer CheckAvailability(client, slot) answers
\* available = true exactly when CreateBooking(client, slot) run on the same
\* rows would succeed, in every reachable state.
C29_AvailableIffBookable ==
  [][ \A w \in Workers :
        (call[w].op = "CheckAvailability" /\ pc'[w] = "idle" /\ pc[w] # "idle")
        => (response'.code = "OK" /\ response'.available)
             = CreateBookingSucceeds(call[w].client, call[w].slot) ]_vars


\* C30: a booking is created with status Confirmed and its status changes
\* only from Confirmed to Cancelled, under every interleaving of CreateBooking,
\* CancelBooking and BulkCancelProviderSlots: a Cancelled booking never
\* becomes Confirmed or Pending again, and no row is removed.
C30_BookingTransitions ==
  [][ /\ Len(bookings') >= Len(bookings)
      /\ \A b \in 1..Len(bookings') :
           IF b > Len(bookings)
             THEN bookings'[b].status = BookingStatusConfirmed
             ELSE bookings'[b].status # bookings[b].status
                    => /\ bookings[b].status = BookingStatusConfirmed
                       /\ bookings'[b].status = BookingStatusCancelled ]_vars

\* A booking was created Confirmed after an earlier one had been cancelled.
C30_Witness ==
  /\ response.op = "CreateBooking"
  /\ response.code = "OK"
  /\ bookings[response.booking].status = BookingStatusConfirmed
  /\ \E b \in BookingIds :
       b < response.booking /\ bookings[b].status = BookingStatusCancelled


\* C33: BulkCancelProviderSlots with a non-empty reason writes the reason as
\* the comment of every booking it cancels; with an empty reason it leaves
\* their comments as they were; the comment of a booking it does not cancel
\* never changes.
C33_BulkComment ==
  [][ \A w \in Workers :
        (call[w].op = "BulkCancelProviderSlots" /\ pc'[w] = "idle")
        => \A b \in BookingIds :
             IF bookings[b].status # BookingStatusCancelled
                /\ bookings'[b].status = BookingStatusCancelled
               THEN bookings'[b].comment =
                      IF call[w].reason # "" THEN call[w].reason ELSE bookings[b].comment
               ELSE bookings'[b].comment = bookings[b].comment ]_vars

\* A bulk cancellation with a reason cancelled a booking and one with an
\* empty reason cancelled another, whose comment is still the client's.
C33_Witness ==
  /\ response.op = "BulkCancelProviderSlots"
  /\ response.code = "OK"
  /\ response.nBookings > 0
  /\ \E a, b \in BookingIds :
       /\ bookings[a].status = BookingStatusCancelled
       /\ bookings[a].comment \in Reasons \ {""}
       /\ bookings[b].status = BookingStatusCancelled
       /\ bookings[b].comment \in Comments

\* C36: in every committed state reached by CreateBooking, CancelBooking and
\* BulkCancelProviderSlots from planned slots and no bookings, a slot that is
\* Booked has exactly one Confirmed booking referring to it.
C36_BookedHasOneConfirmed ==
  \A s \in SlotIds :
    slots[s].status = TimeSlotStatusBooked
    => Cardinality({b \in BookingIds : /\ bookings[b].slot = s
                                       /\ bookings[b].status = BookingStatusConfirmed}) = 1

\* A slot is booked while another slot's booking has been cancelled.
C36_Witness ==
  /\ \E s \in SlotIds : slots[s].status = TimeSlotStatusBooked
  /\ \E b \in BookingIds : bookings[b].status = BookingStatusCancelled
  /\ \A w \in Workers : pc[w] = "idle"


\* ---------------------------------------------------------------------- C39

\* The checks of a slot, each stated on its own.
SlotFound(r) == r.slot # NoRow
SlotRangeValid(r) == r.slot.ends > r.slot.starts
SlotFree(r) == r.slot.status = TimeSlotStatusPlanned
SlotProviderMatches(r) ==
  r.expectedProviderID = "" \/ r.slot.provider = r.expectedProviderID
SlotServiceMatches(r) ==
  r.expectedServiceID = ""
    \/ (r.slot.service # NULL /\ r.slot.service = r.expectedServiceID)

\* The reason of the first check that fails, "" when none does.
FirstFailedCheck(r) ==
  CASE ~SlotFound(r) -> "slot not found"
    [] SlotFound(r) /\ ~SlotRangeValid(r) -> "invalid slot time range"
    [] SlotFound(r) /\ SlotRangeValid(r) /\ ~SlotFree(r) -> "slot is not free"
    [] SlotFound(r) /\ SlotRangeValid(r) /\ SlotFree(r) /\ ~SlotProviderMatches(r)
         -> "slot provider mismatch"
    [] SlotFound(r) /\ SlotRangeValid(r) /\ SlotFree(r) /\ SlotProviderMatches(r)
         /\ ~SlotServiceMatches(r) -> "slot service mismatch"
    [] OTHER -> ""

\* C39: validateSlotModel returns valid with an empty reason exactly when the
\* slot exists, ends after it starts, is Planned, has the expected provider
\* when one is given and the expected service when one is given (a slot
\* without a service matches no given service); otherwise it returns invalid
\* with the reason of the first failed check in the order: slot not found,
\* invalid slot time range, slot is not free, slot provider mismatch, slot
\* service mismatch.
C39_ValidateSlotModel ==
  response.op = "validateSlotModel"
  => LET r == response
         valid == /\ SlotFound(r)
                  /\ SlotRangeValid(r)
                  /\ SlotFree(r)
                  /\ SlotProviderMatches(r)
                  /\ SlotServiceMatches(r)
     IN /\ r.ok <=> valid
        /\ r.ok => r.reason = ""
        /\ ~r.ok => r.reason # "" /\ r.reason = FirstFailedCheck(r)

\* A slot that fails the status check and the provider check is reported as
\* not free; a slot without a service is refused for a given service.
C39_Witness ==
  /\ response.op = "validateSlotModel"
  /\ response.slot # NoRow
  /\ response.slot.ends > response.slot.starts
  /\ response.slot.status = TimeSlotStatusBooked
  /\ response.expectedProviderID # ""
  /\ response.slot.provider # response.expectedProviderID
  /\ response.reason = "slot is not free"

C39_WitnessNoService ==
  /\ response.op = "validateSlotModel"
  /\ response.slot # NoRow
  /\ response.slot.service = NULL
  /\ response.expectedServiceID = "a"
  /\ response.reason = "slot service mismatch"

C39_WitnessValid ==
  /\ response.op = "validateSlotModel"
  /\ response.ok
  /\ response.expectedProviderID # ""
  /\ response.expectedServiceID # ""

\* ---------------------------------------------------------------------- C40

\* The page and the page size a request stands for.
PageOf(r) == IF r.page <= 0 THEN 1 ELSE r.page
PageSizeOf(r) == IF r.pageSize <= 0 THEN 10 ELSE r.pageSize

\* The items at positions lo (counted from 0) up to hi.
ItemsBetween(items, lo, hi) ==
  IF lo >= Len(items) THEN << >> ELSE SubSeq(items, lo + 1, Min2(hi, Len(items)))

\* The pages 1..n one after the other.
RECURSIVE PagesUpTo(_, _, _)
PagesUpTo(items, pageSize, n) ==
  IF n = 0 THEN << >>
  ELSE PagesUpTo(items, pageSize, n - 1) \o Paginate(items, n, pageSize).Items

\* The number of pages that hold an item.
NumPages(total, pageSize) == (total + pageSize - 1) \div pageSize

PaginateAsStated(r) ==
  LET page == PageOf(r)
      pageSize == PageSizeOf(r)
      total == Len(r.items)
  IN /\ ~r.result.panic
     /\ r.result.Items = ItemsBetween(r.items, (page - 1) * pageSize, page * pageSize)
     /\ r.result.Total = total
     /\ r.result.HasPrev <=> page > 1
     /\ r.result.HasNext <=> page * pageSize < total
     /\ PagesUpTo(r.items, r.pageSize, NumPages(total, pageSize)) = r.items
     /\ \A k \in (NumPages(total, pageSize) + 1)..(NumPages(total, pageSize) + 2) :
          k <= MaxInt \div pageSize => Paginate(r.items, k, r.pageSize).Items = << >>
     /\ r.slice = r.result

\* C40: Paginate(items, page, pageSize) returns the items at positions
\* (page - 1) * pageSize up to min(page * pageSize, total), none when the
\* page starts past the end, with Total = len(items), HasPrev iff page > 1
\* and HasNext iff items remain after the page; page <= 0 counts as 1 and
\* pageSize <= 0 as 10; the pages 1, 2, ... in order hold every item once in
\* the original order; SlicePage returns what Paginate returns.
C40_Paginate == response.op = "Paginate" => PaginateAsStated(response)

\* The same for the requests whose page start and page end fit an int.
C40_PaginateNoOverflow ==
  (/\ response.op = "Paginate"
   /\ (PageOf(response) - 1) * PageSizeOf(response) <= MaxInt
   /\ Min2((PageOf(response) - 1) * PageSizeOf(response), Len(response.items))
        + PageSizeOf(response) <= MaxInt)
  => PaginateAsStated(response)

\* A second page of the default size, in range.
C40_WitnessInRange ==
  /\ response.op = "Paginate"
  /\ response.pageSize <= 0
  /\ response.page = 2
  /\ Len(response.result.Items) = 1
  /\ response.result.HasPrev
  /\ ~response.result.HasNext

\* The product (page - 1) * pageSize wraps around to 0: a page far past the
\* end holds the first items.
C40_WitnessWrap ==
  /\ response.op = "Paginate"
  /\ response.page > 1
  /\ response.pageSize > 0
  /\ (response.page - 1) * response.pageSize > Len(response.items)
  /\ ~response.result.panic
  /\ Len(response.result.Items) > 0

\* The page start or the page end wraps around to a negative number: the
\* slice expression panics.
C40_WitnessPanic ==
  /\ response.op = "Paginate"
  /\ response.result.panic

\* ---------------------------------------------------------------------- C37

SeqRange(q) == {q[i] : i \in DOMAIN q}

\* The occurrences found for the outer window that overlap the inner one.
OuterInsideInner(r) ==
  {o \in SeqRange(r.outerIntervals) : o.Start < r.inner.End /\ o.End > r.inner.Start}

WindowsConsistent(r) ==
  /\ r.outerErr = ""
  /\ r.innerErr = ""
  /\ SeqRange(r.innerIntervals) = OuterInsideInner(r)

\* C37: the expansion of a schedule is consistent across query windows: for
\* a schedule whose rule has no count and windows W2 inside W1, the
\* occurrences expandScheduleModelInWindowUTC returns for W2 are exactly the
\* occurrences it returns for W1 that overlap W2, for every interval >= 1
\* and also for a schedule with no start date.
C37_WindowsConsistent ==
  response.op = "expandScheduleModelInWindowUTC" => WindowsConsistent(response)

\* No Sunday among the weekdays of the rule (see C23).
NoSundayListed(sched) == \A i \in DOMAIN sched.Rules[1].Weekdays : sched.Rules[1].Weekdays[i] # 7

\* The same for the schedules that have a start date and whose occurrences
\* end on the day they start.
C37_WithStartDate ==
  (/\ response.op = "expandScheduleModelInWindowUTC"
   /\ response.sched.StartDate # Nil
   /\ NoSundayListed(response.sched)
   /\ response.sched.Rules[1].DurationMin = 1)
  => WindowsConsistent(response)

\* The same for the schedules without a start date that recur every day, or
\* every week on listed weekdays, and whose occurrences end on the day they
\* start.
C37_NoStartDateEvery ==
  (/\ response.op = "expandScheduleModelInWindowUTC"
   /\ response.sched.StartDate = Nil
   /\ NoSundayListed(response.sched)
   /\ response.sched.Rules[1].Interval = 1
   /\ response.sched.Rules[1].Frequency = "DAILY" \/ response.sched.Rules[1].Weekdays # << >>
   /\ response.sched.Rules[1].DurationMin = 1)
  => WindowsConsistent(response)

\* A schedule without a start date that recurs every second day, asked for
\* a window and for a later window inside it: the two expansions disagree.
C37_WitnessAnchor ==
  /\ response.op = "expandScheduleModelInWindowUTC"
  /\ response.sched.StartDate = Nil
  /\ response.sched.Rules[1].Frequency = "DAILY"
  /\ response.sched.Rules[1].Interval = 2
  /\ response.sched.Rules[1].Exceptions = << >>
  /\ response.sched.EndDate = Nil
  /\ response.outerIntervals # << >>
  /\ response.innerIntervals # << >>
  /\ ~WindowsConsistent(response)

\* ---------------------------------------------------------------------- C38

\* C38: ExpandRecurringRule terminates for every rule with a positive
\* duration and a start time and every finite window: also when the rule has
\* neither until nor count, when the start time is far before the window and
\* when every occurrence inside the window falls on an exception date.
C38_Terminates == <>(pc[1] = "idle")

\* The run by steps returns what the function returns.
C38_SameResult ==
  response.op = "ExpandRecurringRuleLoop"
  => LET r == ExpandRecurringRule(response.rule, response.window)
     IN response.err = r.err /\ response.result = r.result

\* A rule without until and count whose start is more than a week before
\* the window: the loop has run through the days before the window, found
\* occurrences in it and returned.
C38_Witness ==
  /\ response.op = "ExpandRecurringRuleLoop"
  /\ response.rule.Until = Nil
  /\ response.rule.Count = Nil
  /\ response.window.Start >= response.rule.StartTime + 6 * DayLen
  /\ response.iterations >= 6
  /\ response.result # << >>
  /\ pc[1] = "idle"

\* Every occurrence inside the window falls on an exception date: the loop
\* has run through the window and returned nothing.
C38_WitnessExceptions ==
  /\ response.op = "ExpandRecurringRuleLoop"
  /\ response.rule.Until = Nil
  /\ response.rule.Count = Nil
  /\ response.window.End > response.window.Start + DayLen
  /\ \A d \in DayOf(response.window.Start)..DayOf(response.window.End) :
       d \in response.rule.Exceptions
  /\ response.iterations >= 2
  /\ response.result = << >>
  /\ pc[1] = "idle"

\* ---------------------------------------------------------------------- C31

\* C31: CreateBooking, CancelBooking, BulkCancelProviderSlots and the
\* materialization of slots delete no slot row and no booking row: every
\* step keeps every slot id and every booking id, each on the row it was on.
C31_NoRowDeleted ==
  [][/\ SlotIds \subseteq DOMAIN slots'
     /\ BookingIds \subseteq DOMAIN bookings'
     /\ \A s \in SlotIds : /\ slots'[s].provider = slots[s].provider
                           /\ slots'[s].service = slots[s].service
                           /\ slots'[s].starts = slots[s].starts
                           /\ slots'[s].ends = slots[s].ends
                           /\ slots'[s].schedule = slots[s].schedule
     /\ \A b \in BookingIds : /\ bookings'[b].slot = bookings[b].slot
                              /\ bookings'[b].client = bookings[b].client]_vars

\* Slots were materialized by two calls, one of them was booked, and the
\* provider's window was cancelled, the booking with it.
C31_Witness ==
  /\ \E s, t \in SlotIds : slots[s].service # slots[t].service
  /\ \E b \in BookingIds : bookings[b].status = BookingStatusCancelled
  /\ \E s \in SlotIds : slots[s].status = TimeSlotStatusCancelled
  /\ response.op = "BulkCancelProviderSlots"
  /\ response.code = "OK"
  /\ \A w \in Workers : pc[w] = "idle"

\* ---------------------------------------------------------------------- C32

\* The provider's planned slots inside the window of the request c.
PlannedInWindow(c) ==
  {s \in SlotIds : /\ slots[s].provider = c.provider
                   /\ slots[s].status = TimeSlotStatusPlanned
                   /\ slots[s].starts >= c.window[1]
                   /\ slots[s].ends <= c.window[2]}

\* The answer r to the request c: only planned slots of the provider inside
\* the window, in ascending start order, and every such slot (of the service
\* asked for, when one is) as long as one page holds them all.
FreeSlotsListed(c, r) ==
  /\ r.code = "OK"
  /\ \A i \in DOMAIN r.list : r.list[i] \in PlannedInWindow(c)
  /\ \A i, j \in DOMAIN r.list : i < j => slots[r.list[i]].starts <= slots[r.list[j]].starts
  /\ \A s \in PlannedInWindow(c) :
       (c.service = NULL \/ slots[s].service = c.service) => \E i \in DOMAIN r.list : r.list[i] = s

\* C32: ListFreeSlots returns only slots of the requested provider that are
\* Planned and lie fully inside the window, in ascending start order; a slot
\* is not returned once a CreateBooking on it has committed and is returned
\* again once the CancelBooking of that booking has committed.
C32_ListFreeSlots ==
  [][\A w \in Workers :
       (pc[w] = "lf_list" /\ pc'[w] = "idle") => FreeSlotsListed(call[w], response')]_vars

\* The same for the requests that name a service.
C32_WithService ==
  [][\A w \in Workers :
       (pc[w] = "lf_list" /\ pc'[w] = "idle" /\ call[w].service # NULL)
       => FreeSlotsListed(call[w], response')]_vars

\* A slot of a service that was booked and whose booking was cancelled is
\* listed again.
C32_WitnessListedAgain ==
  /\ response.op = "ListFreeSlots"
  /\ response.code = "OK"
  /\ \E i \in DOMAIN response.list :
       \E b \in BookingIds : /\ bookings[b].slot = response.list[i]
                             /\ bookings[b].status = BookingStatusCancelled

\* A request without a service finds a planned slot without a service.
C32_WitnessPanic ==
  /\ response.op = "ListFreeSlots"
  /\ response.code = "Panic"

\* ---------------------------------------------------------------------- C34

\* C34: one materializeSlotsFromSchedules call inserts no two slot rows with
\* the same provider, service, start and end, also when two schedules of
\* the provider expand to the same interval inside the window.
C34_NoTwinInserted ==
  [][\A w \in Workers :
       (pc[w] = "mat_create" /\ pc'[w] # "mat_create")
       => \A s, t \in (Len(slots) + 1)..Len(slots') :
            ( /\ slots'[s].provider = slots'[t].provider
              /\ slots'[s].service = slots'[t].service
              /\ slots'[s].starts = slots'[t].starts
              /\ slots'[s].ends = slots'[t].ends ) => s = t]_vars

\* One call on empty tables has inserted two rows of the same provider,
\* service, start and end, one for each schedule.
C34_WitnessTwins ==
  /\ commits = 1
  /\ \E s, t \in SlotIds : /\ s # t
                           /\ slots[s].provider = slots[t].provider
                           /\ slots[s].service = slots[t].service
                           /\ slots[s].starts = slots[t].starts
                           /\ slots[s].ends = slots[t].ends
                           /\ slots[s].schedule # slots[t].schedule

\* ---------------------------------------------------------------------- C35

\* C35: once BulkCancelProviderSlots for a provider and a window has
\* committed, a ListFreeSlots that follows it for the same provider and
\* window, with or without a service, creates no Planned slot inside the
\* window and returns no slot.
C35_CancellationLasts ==
  [][\A w \in Workers :
       (call[w].op = "ListFreeSlots" /\ call[w].afterBulk /\ pc'[w] # pc[w])
       => /\ \A s \in (Len(slots) + 1)..Len(slots') :
               ~( /\ slots'[s].provider = call[w].provider
                  /\ slots'[s].status = TimeSlotStatusPlanned
                  /\ slots'[s].starts >= call[w].window[1]
                  /\ slots'[s].ends <= call[w].window[2] )
          /\ (pc'[w] = "idle" /\ response'.code = "OK") => response'.list = << >>]_vars

\* The window's slots, made for a service, were cancelled and the request
\* that follows for that service finds them: it creates and returns nothing.
C35_WitnessLasts ==
  /\ response.op = "ListFreeSlots"
  /\ response.afterBulk
  /\ response.code = "OK"
  /\ response.list = << >>
  /\ response.c0 = commits
  /\ \E s \in SlotIds : /\ slots[s].status = TimeSlotStatusCancelled
                        /\ slots[s].service = response.service
                        /\ slots[s].starts >= response.window[1]
                        /\ slots[s].ends <= response.window[2]

\* The window's slots were cancelled and the request that follows, for a
\* service they were not made for, is answered with planned slots.
C35_WitnessRecreated ==
  /\ response.op = "ListFreeSlots"
  /\ response.afterBulk
  /\ response.code = "OK"
  /\ \E i \in DOMAIN response.list :
       \E s \in SlotIds : /\ slots[s].status = TimeSlotStatusCancelled
                          /\ slots[s].service # slots[response.list[i]].service
                          /\ slots[s].starts = slots[response.list[i]].starts
                          /\ slots[s].ends = slots[response.list[i]].ends

Next ==
  \E w \in Workers :
    \/ CreateBookingFindClient(w)
    \/ CreateBookingLockSlot(w)
    \/ CreateBookingClientRanges(w)
    \/ CreateBookingProviderRanges(w)
    \/ CreateBookingInsert(w)
    \/ CancelBookingGet(w)
    \/ CancelBookingUpdateBooking(w)
    \/ CancelBookingUpdateSlot(w)
    \/ BulkCancelSelect(w)
    \/ BulkCancelUpdateBookings(w)
    \/ BulkCancelUpdateSlots(w)

Spec == Init /\ [][Next]_vars

SpecSeq == InitSeq /\ [][Next]_vars

\* The booking operations and the read-only check of a booking.
NextAvail ==
  \/ Next
  \/ \E w \in Workers :
       \/ CheckAvailabilityFindClient(w)
       \/ CheckAvailabilityGetSlot(w)
       \/ CheckAvailabilityClientRanges(w)
       \/ CheckAvailabilityProviderRanges(w)

SpecAvail == InitSeq /\ [][NextAvail]_vars

\* The calls of the utility functions.
NextUtils ==
  \E w \in Workers :
    \/ ExpandRecurringRuleCall(w)
    \/ NormalizeTimeRangeCall(w)
    \/ SplitToTimeSlotsCall(w)
    \/ rangesOverlapCall(w)
    \/ HasOverlapCall(w)
    \/ validateSlotModelCall(w)
    \/ PaginateCall(w)
    \/ expandScheduleModelInWindowUTCCall(w)

SpecUtils == InitUtils /\ [][NextUtils]_vars

NextExpandLoop ==
  \E w \in Workers :
    \/ ExpandBegin(w)
    \/ ExpandDailyIteration(w)
    \/ ExpandWeekIteration(w)

\* The function runs on its caller's goroutine, which keeps being scheduled.
SpecExpandLoop == InitExpandLoop /\ [][NextExpandLoop]_vars /\ WF_vars(NextExpandLoop)

NextRoles ==
  \E w \in Workers :
    \/ SetRoleFindRole(w)
    \/ SetRoleCreateRole(w)
    \/ SetRoleDelete(w)
    \/ SetRoleInsert(w)
    \/ GetRole(w)

SpecRoles == InitRoles /\ [][NextRoles]_vars

NextMat ==
  \E w \in Workers :
    \/ ListFreeSlots(w)
    \/ materializeFindExisting(w)
    \/ materializeCreate(w)
    \/ ListFreeSlotsQuery(w)

SpecMat == InitMat /\ [][NextMat]_vars

SpecMatSeq == InitMatSeq /\ [][NextMat]_vars

\* The booking operations and ListFreeSlots on one store.
NextCal == Next \/ NextMat

SpecCal == InitCal /\ [][NextCal]_vars

====
